---------------------------- MODULE Spec2Model ----------------------------
(***************************************************************************)
(* TuxTimings: the decoding engines of the Linux front end and of the      *)
(* aod_voltages kernel module, as state machines.                          *)
(*                                                                         *)
(*   util.c       bit_slice                                                *)
(*   pm_table.c   get_family_map, safe_get, apply_named,                   *)
(*                read_granite_ridge_offsets, try_plausible_*,             *)
(*                read_known_indices, pm_table_read                        *)
(*   dram.c       read_common_timings, read_ddr5_timings,                  *)
(*                read_ddr4_timings, dram_read_timings                     *)
(*   aod_voltages.c  find_aod_phys, aod_voltages_init, aod_voltages_exit   *)
(*   backend.c    backend_read_summary                                     *)
(*                                                                         *)
(* A uint32_t is modelled as the set of its bit positions that are 1       *)
(* (a subset of 0..31): TLC's integers are 32 bit signed, so the set keeps *)
(* the full width of the C type.                                           *)
(***************************************************************************)
EXTENDS Integers, Sequences, FiniteSets, TLC

VARIABLES
    bs_pc, bs_val, bs_hi, bs_lo, bs_res,     \* one call of bit_slice
    pm_pc,        \* "ready": before a call, "done": a call has just returned
    pm_in,        \* the arguments [version, codename_index, count, table]
    pm_map,       \* the family descriptor the call decodes with
    pm_out,       \* the caller's smu_metrics_t
    pm_reads,     \* the table indices the last call dereferenced
    pm_oob,       \* the per-core stores of the last call outside the arrays
    pm_seen,      \* the records the calls with pm_in have returned
    pm_calls,     \* the number of calls made with pm_in
    dr_pc,        \* "ready" / "done", as pm_pc, for dram_read_timings
    dr_in,        \* the arguments [codename_index] and the SMN device [smn]
    dr_out,       \* the caller's dram_timings_t
    dr_reads,     \* the SMN addresses the last call read
    dr_seen,      \* the records the calls with dr_in have returned
    dr_calls,     \* the number of calls made with dr_in
    ao_pc,        \* "ready" / "done" for find_aod_phys; "loaded", "failed" and
                  \* "unloaded" for the kernel module
    ao_tables,    \* the SSDT tables acpi_get_table serves, in index order
    ao_phys,      \* the address find_aod_phys returned
    ao_scanned,   \* the SSDT indices whose AML the call scanned
    ao_reads,     \* the <<SSDT index, AML position>> pairs the call read
    ao_base,      \* the static aod_base: the null pointer or a remapped region
    ao_kobj,      \* the static aod_kobj is not NULL
    ao_live,      \* the live mappings, kobjects and sysfs groups of the module
                  \* and the kernel calls that changed them, in order
    ao_ret,       \* the value aod_voltages_init returned
    bk_pc,        \* "ready" / "done" for backend_read_summary
    bk_cached,    \* the static s_cached_static
    bk_static,    \* the statics s_processor_name .. s_modules
    bk_runs,      \* how often each parser of static data has run
    bk_out,       \* the caller's system_summary_t
    bk_calls,     \* the number of calls of backend_read_summary
    sh_pc,        \* "ready" / "done" for the sysfs show handlers
    sh_off,       \* the module parameters off_vddio, off_vddq, off_vpp
    sh_region,    \* the kind of content of the mapped AOD region
    sh_reads,     \* the offsets from aod_base the last handler read 4 bytes at
    sh_out,       \* what the last handler returned
    sh_calls,     \* the number of handlers run
    cu_pc,        \* "ready" / "done" for read_core_usage
    cu_prev,      \* the statics s_prev_idle, s_prev_total, s_prev_valid
    cu_logical,   \* the local logical_usage at the end of the last call
    cu_out,       \* core_usage_pct and core_usage_count of the metrics
    cu_polls,     \* the number of polls
    el_pc,        \* "ready" / "done" for elevate_if_necessary
    el_argc,      \* argc of the program
    el_run,       \* the effective user, the environment, malloc and readlink
    el_out        \* the size of new_argv and the indices stored at

bsVars == <<bs_pc, bs_val, bs_hi, bs_lo, bs_res>>

pmVars == <<pm_pc, pm_in, pm_map, pm_out, pm_reads, pm_oob, pm_seen, pm_calls>>

drVars == <<dr_pc, dr_in, dr_out, dr_reads, dr_seen, dr_calls>>

aoVars ==
    <<ao_pc, ao_tables, ao_phys, ao_scanned, ao_reads, ao_base, ao_kobj, ao_live, ao_ret>>

bkVars ==
    <<bk_pc, bk_cached, bk_static, bk_runs, bk_out, bk_calls>>

shVars == <<sh_pc, sh_off, sh_region, sh_reads, sh_out, sh_calls>>

cuVars == <<cu_pc, cu_prev, cu_logical, cu_out, cu_polls>>

elVars == <<el_pc, el_argc, el_run, el_out>>

vars == <<bsVars, pmVars, drVars, aoVars, bkVars, shVars, cuVars, elVars>>

---------------------------------------------------------------------------
(* uint32_t arithmetic on bit sets                                         *)

WordBits == 32

BitIdx == 0 .. (WordBits - 1)

\* the word whose value is n, for 0 <= n < 2^31
FromNat(n) == { i \in 0 .. (WordBits - 2) : (n \div (2 ^ i)) % 2 = 1 }

RECURSIVE ToNat(_)
\* the value of a word that has bit 31 clear
ToNat(w) == IF w = {} THEN 0
            ELSE LET i == CHOOSE j \in w : TRUE IN (2 ^ i) + ToNat(w \ {i})

AllOnes == BitIdx                                   \* 0xFFFFFFFFu

\* w >> n, for 0 <= n <= 31
Shr(w, n) == { i - n : i \in { j \in w : j >= n } }

\* 1u << n, for 0 <= n <= 31
OneShl(n) == { n }

\* w - 1u, wrapping
SubOne(w) == IF w = {} THEN AllOnes
             ELSE LET m == CHOOSE j \in w : \A k \in w : j <= k
                  IN  (w \ {m}) \cup (0 .. (m - 1))

\* a & b
BitAnd(a, b) == a \cap b

---------------------------------------------------------------------------
(* util.c: bit_slice                                                       *)

\* the mutation of bit_slice that computes the width as hi - lo
bit_slice_narrow(val, hi, lo) ==
    LET width == hi - lo
    IN  IF width <= 0 \/ width > WordBits THEN {}
        ELSE LET mask == IF width = WordBits THEN AllOnes
                         ELSE SubOne(OneShl(width))
             IN  BitAnd(Shr(val, lo), mask)

bit_slice(val, hi, lo) ==
    LET width == hi - lo + 1
    IN  IF width <= 0 \/ width > WordBits THEN {}
        ELSE LET mask == IF width = WordBits THEN AllOnes
                         ELSE SubOne(OneShl(width))
             IN  BitAnd(Shr(val, lo), mask)

\* val >> lo is evaluated with a shift count outside 0..31: undefined in C
bit_slice_undefined(hi, lo) ==
    LET width == hi - lo + 1
    IN  ~(width <= 0 \/ width > WordBits) /\ (lo < 0 \/ lo >= WordBits)

---------------------------------------------------------------------------
(* Inputs of the bit_slice calls                                           *)

BitPad == 2

SliceArgs == (0 - BitPad) .. (WordBits - 1 + BitPad)

SampleWords ==
    { {}, AllOnes, {31}, {0}, FromNat(3200), FromNat(12583224),
      FromNat(554041656), { i \in BitIdx : i % 2 = 1 } }

BsInit ==
    /\ bs_pc = "call"
    /\ bs_val \in SampleWords
    /\ bs_hi \in SliceArgs
    /\ bs_lo \in SliceArgs
    /\ bs_res = {}

BsIdle ==
    /\ bs_pc = "idle"
    /\ bs_val = {}
    /\ bs_hi = 0
    /\ bs_lo = 0
    /\ bs_res = {}

\* r = bit_slice(val, hi, lo)
BitSlice ==
    /\ bs_pc = "call"
    /\ bs_pc' = "done"
    /\ IF bit_slice_undefined(bs_hi, bs_lo)
       THEN bs_res' \in SampleWords
       ELSE bs_res' = bit_slice(bs_val, bs_hi, bs_lo)
    /\ UNCHANGED <<bs_val, bs_hi, bs_lo>>
    /\ UNCHANGED <<pmVars, drVars, aoVars, bkVars, shVars, cuVars, elVars>>

---------------------------------------------------------------------------
(* float values of the PM table                                            *)
(*                                                                         *)
(* A float is modelled in fixed point, as a multiple of 1/8: the integer v *)
(* stands for v/8.  Every float the inputs below hold and every result the *)
(* decoder computes from them (a comparison, the mean of two values, a     *)
(* product by 1000) is exact in this representation.  NaN is a value of    *)
(* its own: every ordered comparison with it is false.                     *)

FX == 2 ^ 3

NaN == 0 - (2 ^ 30)

\* the float literal n/d of the source
Fl(n, d) == (n * FX) \div d

FGe(a, b) == a # NaN /\ b # NaN /\ a >= b
FLe(a, b) == a # NaN /\ b # NaN /\ a <= b
FGt(a, b) == a # NaN /\ b # NaN /\ a > b

\* (a + b) * 0.5f
FMean(a, b) == IF a = NaN \/ b = NaN THEN NaN ELSE (a + b) \div 2

\* a * 1000.0f
FMul1000(a) == IF a = NaN THEN NaN ELSE a * 1000

---------------------------------------------------------------------------
(* types.h: smu_metrics_t                                                  *)

MAX_CORES == 16
MAX_MODULES == 4

CoreIdx == 0 .. (MAX_CORES - 1)

ScalarFields ==
    { "package_power_w", "ppt_w", "package_current_a",
      "vcore", "vsoc", "vddp", "vddg_ccd", "vddg_iod", "vdd_misc",
      "cpu_vddio", "mem_vdd", "mem_vddq", "mem_vpp", "vid",
      "core_clock_mhz", "bclk_mhz", "fclk_mhz", "uclk_mhz", "mclk_mhz",
      "memory_clock_mhz", "cpu_temp_c",
      "tdie_c", "tctl_c", "tccd1_c", "tccd2_c", "iod_hotspot_c" }

FlagFields ==
    { "has_tdie", "has_tctl", "has_tccd1", "has_tccd2", "has_iod_hotspot" }

CountFields ==
    { "core_clocks_count", "core_temps_count", "core_voltages_count",
      "core_usage_count", "core_freq_count", "spd_temps_count" }

CoreArrayFields ==
    { "core_clocks_ghz", "core_temps_c", "core_voltages",
      "core_usage_pct", "core_freq_mhz" }

MetricFields ==
    ScalarFields \cup FlagFields \cup CountFields \cup CoreArrayFields
        \cup { "spd_temps_c" }

\* a record with every float at v, every count at n, every flag at b
FilledMetrics(v, n, b) ==
    [ f \in MetricFields |->
        IF f \in FlagFields THEN b
        ELSE IF f \in CountFields THEN n
        ELSE IF f \in CoreArrayFields THEN [ i \in CoreIdx |-> v ]
        ELSE IF f = "spd_temps_c" THEN [ i \in 0 .. (MAX_MODULES - 1) |-> v ]
        ELSE v ]

\* memset(out, 0, sizeof(*out))
ZeroMetrics == FilledMetrics(0, 0, FALSE)


---------------------------------------------------------------------------
(* pm_table.c: the family map registry                                     *)

\* a named entry {index, field_offset}; the field is named by the member
\* of smu_metrics_t that apply_named stores it to
E(i, f) == [ index |-> i, field |-> f ]

F_FCLK == "fclk_mhz"
F_UCLK == "uclk_mhz"
F_MCLK == "mclk_mhz"
F_VSOC == "vsoc"
F_VDDP == "vddp"
F_VDDG_IOD == "vddg_iod"
F_VDDG_CCD == "vddg_ccd"
F_VDD_MISC == "vdd_misc"
F_VCORE == "vcore"
F_IOD_HOTSPOT == "iod_hotspot_c"

FamilyMap(nm, named, vid, ppt, sock, cvs, cts, mc) ==
    [ name |-> nm, named |-> named, named_count |-> Len(named),
      vid_idx |-> vid, ppt_idx |-> ppt, socket_power_idx |-> sock,
      core_voltage_start |-> cvs, core_temp_start |-> cts, max_cores |-> mc ]

GRANITE_RIDGE ==
    FamilyMap("GRANITE_RIDGE",
        << E(11, F_IOD_HOTSPOT), E(58, F_VDD_MISC), E(71, F_FCLK), E(75, F_UCLK),
           E(79, F_MCLK), E(83, F_VSOC), E(259, F_VDDG_IOD), E(261, F_VDDG_CCD),
           E(269, F_VDDP), E(271, F_VCORE) >>,
        275, 3, 29, 309, 317, 8)

VERMEER_380804 ==
    FamilyMap("VERMEER_380804",
        << E(11, F_IOD_HOTSPOT), E(48, F_FCLK), E(50, F_UCLK), E(51, F_MCLK),
           E(44, F_VSOC), E(137, F_VDDP), E(138, F_VDDG_IOD), E(139, F_VDDG_CCD),
           E(40, F_VCORE) >>,
        10, 1, 29, 185, 201, 16)

VERMEER_380805 ==
    FamilyMap("VERMEER_380805",
        << E(11, F_IOD_HOTSPOT), E(48, F_FCLK), E(50, F_UCLK), E(51, F_MCLK),
           E(44, F_VSOC), E(137, F_VDDP), E(138, F_VDDG_IOD), E(139, F_VDDG_CCD),
           E(39, F_VCORE) >>,
        10, 1, 29, 188, 204, 16)

VERMEER_380904 ==
    FamilyMap("VERMEER_380904",
        << E(11, F_IOD_HOTSPOT), E(48, F_FCLK), E(50, F_UCLK), E(51, F_MCLK),
           E(44, F_VSOC), E(137, F_VDDP), E(138, F_VDDG_IOD), E(139, F_VDDG_CCD),
           E(40, F_VCORE) >>,
        10, 1, 29, 177, 185, 8)

VERMEER_380905 ==
    FamilyMap("VERMEER_380905",
        << E(11, F_IOD_HOTSPOT), E(48, F_FCLK), E(50, F_UCLK), E(51, F_MCLK),
           E(44, F_VSOC), E(137, F_VDDP), E(138, F_VDDG_IOD), E(139, F_VDDG_CCD),
           E(39, F_VCORE) >>,
        10, 1, 29, 180, 188, 8)

CEZANNE_400005 ==
    FamilyMap("CEZANNE_400005",
        << E(29, F_IOD_HOTSPOT), E(409, F_FCLK), E(410, F_UCLK), E(411, F_MCLK),
           E(102, F_VSOC), E(565, F_VDDP), E(98, F_VCORE) >>,
        28, 5, 38, 208, 216, 8)

MATISSE_240903 ==
    FamilyMap("MATISSE_240903",
        << E(11, F_IOD_HOTSPOT), E(48, F_FCLK), E(50, F_UCLK), E(51, F_MCLK),
           E(44, F_VSOC), E(125, F_VDDP), E(126, F_VDDG_IOD), E(39, F_VCORE) >>,
        10, 1, 29, 155, 163, 8)

MATISSE_240803 ==
    FamilyMap("MATISSE_240803",
        << E(11, F_IOD_HOTSPOT), E(48, F_FCLK), E(50, F_UCLK), E(51, F_MCLK),
           E(44, F_VSOC), E(125, F_VDDP), E(126, F_VDDG_IOD), E(40, F_VCORE) >>,
        10, 1, 29, 163, 179, 16)

RENOIR_370003 ==
    FamilyMap("RENOIR_370003",
        << E(29, F_IOD_HOTSPOT), E(371, F_FCLK), E(372, F_UCLK), E(373, F_MCLK),
           E(101, F_VSOC), E(527, F_VDDP), E(97, F_VCORE) >>,
        28, 5, 38, 200, 208, 8)

RENOIR_370005 ==
    FamilyMap("RENOIR_370005",
        << E(29, F_IOD_HOTSPOT), E(378, F_FCLK), E(379, F_UCLK), E(380, F_MCLK),
           E(101, F_VSOC), E(534, F_VDDP), E(97, F_VCORE) >>,
        28, 5, 38, 207, 215, 8)

RAVEN_1E0004 ==
    FamilyMap("RAVEN_1E0004",
        << E(61, F_IOD_HOTSPOT), E(166, F_FCLK), E(167, F_UCLK), E(168, F_MCLK),
           E(65, F_VSOC), E(60, F_VDDP), E(61, F_VCORE) >>,
        57, 5, 38, 104, 108, 4)

\* the version tags of the switch, in hexadecimal in the source
V_380804 == 3672068
V_380805 == 3672069
V_380904 == 3672324
V_380905 == 3672325
V_400005 == 4194309
V_240903 == 2361603
V_240803 == 2361347
V_370003 == 3604483
V_370005 == 3604485
V_1E0004 == 1966084

\* the mutation of get_family_map that lost the case of 0x380905
get_family_map_missing_case(version) ==
    CASE version = V_380804 -> VERMEER_380804
      [] version = V_380805 -> VERMEER_380805
      [] version = V_380904 -> VERMEER_380904
      [] version = V_400005 -> CEZANNE_400005
      [] version = V_240903 -> MATISSE_240903
      [] version = V_240803 -> MATISSE_240803
      [] version = V_370003 -> RENOIR_370003
      [] version = V_370005 -> RENOIR_370005
      [] version = V_1E0004 -> RAVEN_1E0004
      [] OTHER -> GRANITE_RIDGE

get_family_map(version) ==
    CASE version = V_380804 -> VERMEER_380804
      [] version = V_380805 -> VERMEER_380805
      [] version = V_380904 -> VERMEER_380904
      [] version = V_380905 -> VERMEER_380905
      [] version = V_400005 -> CEZANNE_400005
      [] version = V_240903 -> MATISSE_240903
      [] version = V_240803 -> MATISSE_240803
      [] version = V_370003 -> RENOIR_370003
      [] version = V_370005 -> RENOIR_370005
      [] version = V_1E0004 -> RAVEN_1E0004
      [] OTHER -> GRANITE_RIDGE

---------------------------------------------------------------------------
(* pm_table.c: the decoder                                                 *)
(*                                                                         *)
(* The table argument is [present, a, b]: a null pointer when present is   *)
(* FALSE, and otherwise an array whose element i is TableAt(t, i); count   *)
(* is passed beside it, as in the C signature.  A decoder state s is       *)
(* [m, reads, oob]: the output record, the set of table indices the call   *)
(* has dereferenced so far, and the set of <<array, index>> stores that    *)
(* fell outside a per-core array of MAX_CORES elements.  Each statement of *)
(* the source is an operator from decoder states to decoder states.        *)

\* the floats a table holds: NaN, -1, 0, 0.25, 0.5, 1, 6.5, 150, 200, 400, 500
PmVals ==
    << NaN, Fl(0 - 1, 1), 0, Fl(1, 4), Fl(1, 2), Fl(1, 1), Fl(13, 2),
       Fl(150, 1), Fl(200, 1), Fl(400, 1), Fl(500, 1) >>

\* t[i]
TableAt(t, i) == PmVals[((t.a * i + t.b) % Len(PmVals)) + 1]

\* the accesses t[i] for i in rd
Deref(s, rd) == [ s EXCEPT !.reads = @ \cup rd ]

\* m->field = v
SetField(s, f, v) == [ s EXCEPT !.m[f] = v ]

\* the mutation of safe_get that admits idx == count
safe_get_off_by_one(t, count, idx) ==
    IF idx >= 0 /\ idx <= count
    THEN [ v |-> TableAt(t, idx), rd |-> { idx } ]
    ELSE [ v |-> 0, rd |-> {} ]

\* safe_get: the value, and the indices it dereferenced
safe_get(t, count, idx) ==
    IF idx >= 0 /\ idx < count
    THEN [ v |-> TableAt(t, idx), rd |-> { idx } ]
    ELSE [ v |-> 0, rd |-> {} ]

\* the mutation of InPlausibleTemp that accepts a reading of 0
InPlausibleTempFromZero(v) == FGe(v, 0) /\ FLe(v, Fl(150, 1))

\* v >= 1.0f && v <= 150.0f
InPlausibleTemp(v) == FGe(v, Fl(1, 1)) /\ FLe(v, Fl(150, 1))

\* v >= 0.5f && v <= 400.0f
InPlausiblePower(v) == FGe(v, Fl(1, 2)) /\ FLe(v, Fl(400, 1))

\* the current filter with the upper limit of the power filter
InPlausibleCurrentAsPower(v) == FGe(v, Fl(1, 2)) /\ FLe(v, Fl(400, 1))

\* v >= 0.5f && v <= 200.0f
InPlausibleCurrent(v) == FGe(v, Fl(1, 2)) /\ FLe(v, Fl(200, 1))

\* if (v >= 1.0f && v <= 150.0f) { m->iod_hotspot_c = v; m->has_iod_hotspot = true; }
accept_hotspot(s, v) ==
    IF InPlausibleTemp(v)
    THEN [ s EXCEPT !.m["iod_hotspot_c"] = v, !.m["has_iod_hotspot"] = TRUE ]
    ELSE s

\* the switch of apply_named, for the entry e and the value g that safe_get
\* returned for it
apply_named_store(e, g, s) ==
    IF e.field = F_IOD_HOTSPOT
    THEN accept_hotspot(Deref(s, g.rd), g.v)
    ELSE SetField(Deref(s, g.rd), e.field, g.v)

RECURSIVE apply_named_from(_, _, _, _, _)
\* the loop of apply_named from entry i on
apply_named_from(i, map, t, count, s) ==
    IF i > map.named_count THEN s
    ELSE apply_named_from(i + 1, map, t, count,
            apply_named_store(map.named[i],
                              safe_get(t, count, map.named[i].index), s))

apply_named(map, t, count, s) == apply_named_from(1, map, t, count, s)

\* m->field = g.v, for the value g that safe_get returned
StoreGot(f, g, s) == SetField(Deref(s, g.rd), f, g.v)

\* the offsets with 0x430 for the 0x434 of vddp
OffsetFieldsShifted ==
    << <<"fclk_mhz", 284>>, <<"uclk_mhz", 300>>, <<"mclk_mhz", 316>>,
       <<"vsoc", 332>>, <<"vddp", 1072>>, <<"vddg_iod", 1036>>,
       <<"vddg_ccd", 1044>>, <<"vdd_misc", 232>>, <<"vcore", 1084>> >>

\* the byte offsets of read_granite_ridge_offsets, in hexadecimal in the source
OffsetFields ==
    << <<"fclk_mhz", 284>>, <<"uclk_mhz", 300>>, <<"mclk_mhz", 316>>,
       <<"vsoc", 332>>, <<"vddp", 1076>>, <<"vddg_iod", 1036>>,
       <<"vddg_ccd", 1044>>, <<"vdd_misc", 232>>, <<"vcore", 1084>> >>

RECURSIVE read_offsets_from(_, _, _, _)
\* the assignments of read_granite_ridge_offsets from the i-th on
read_offsets_from(i, t, count, s) ==
    IF i > Len(OffsetFields) THEN s
    ELSE read_offsets_from(i + 1, t, count,
            StoreGot(OffsetFields[i][1],
                     safe_get(t, count, OffsetFields[i][2] \div 4), s))

read_granite_ridge_offsets(t, count, s) == read_offsets_from(1, t, count, s)

\* the range test of a candidate loop: "power", "current" or "temp"
Plausible(kind, v) ==
    CASE kind = "power" -> InPlausiblePower(v)
      [] kind = "current" -> InPlausibleCurrent(v)
      [] kind = "temp" -> InPlausibleTemp(v)

\* the candidate loops: the first candidate whose value is plausible, else 0;
\* rd holds every index dereferenced on the way
RECURSIVE first_plausible_from(_, _, _, _, _, _)
RECURSIVE first_plausible_at(_, _, _, _, _, _, _)
\* the mutation of the loop body that lets a later plausible candidate win
first_plausible_at_last(i, cands, kind, t, count, rd, g) ==
    IF first_plausible_from(i + 1, cands, kind, t, count, rd \cup g.rd).found
    THEN first_plausible_from(i + 1, cands, kind, t, count, rd \cup g.rd)
    ELSE IF Plausible(kind, g.v)
         THEN [ v |-> g.v, rd |-> rd \cup g.rd, found |-> TRUE ]
         ELSE first_plausible_from(i + 1, cands, kind, t, count, rd \cup g.rd)

first_plausible_from(i, cands, kind, t, count, rd) ==
    IF i > Len(cands) THEN [ v |-> 0, rd |-> rd, found |-> FALSE ]
    ELSE first_plausible_at(i, cands, kind, t, count, rd,
                            safe_get(t, count, cands[i]))

\* one iteration, for the value g that safe_get returned for candidate i
first_plausible_at(i, cands, kind, t, count, rd, g) ==
    IF Plausible(kind, g.v) THEN [ v |-> g.v, rd |-> rd \cup g.rd, found |-> TRUE ]
    ELSE first_plausible_from(i + 1, cands, kind, t, count, rd \cup g.rd)

PowerCandidates == << 29, 1, 13, 38, 5, 220, 187, 42, 0 >>
CurrentCandidates == << 41, 46, 3, 10, 11, 4 >>
TempCandidates == << 1, 448, 449 >>
PptCandidates == << 3, 1, 13, 29, 5, 38 >>

try_plausible_power(t, count) ==
    first_plausible_from(1, PowerCandidates, "power", t, count, {})

try_plausible_current(t, count) ==
    first_plausible_from(1, CurrentCandidates, "current", t, count, {})

try_plausible_temp(t, count) ==
    first_plausible_from(1, TempCandidates, "temp", t, count, {})

\* m->count_field = n; for (i = 0; i < n; i++) m->array[i] = t[start + i];
\* the loop's stores, its dereferences and its stores past the array, each
\* given for all its iterations at once
copy_cores(cf, n, f, start, t, s) ==
    [ s EXCEPT
        !.m[cf] = n,
        !.m[f] = [ i \in CoreIdx |-> IF i < n THEN TableAt(t, start + i) ELSE @[i] ],
        !.reads = @ \cup { start + i : i \in 0 .. (n - 1) },
        !.oob = @ \cup { <<f, i>> : i \in (0 .. (n - 1)) \ CoreIdx } ]

\* m->tdie_c = v; m->has_tdie = true;
set_tdie(s, v) == [ s EXCEPT !.m["tdie_c"] = v, !.m["has_tdie"] = TRUE ]

\* the PPT loop of read_known_indices, for the result p of the candidate loop
known_ppt_store(p, s) ==
    IF p.found THEN SetField(Deref(s, p.rd), "ppt_w", p.v) ELSE Deref(s, p.rd)

known_ppt(t, count, s) ==
    known_ppt_store(
        first_plausible_from(1, PptCandidates, "power", t, count, {}), s)

\* core temps (indices 317-324)
known_core_temps(t, count, s) ==
    IF count > 324
    THEN copy_cores("core_temps_count", 8, "core_temps_c", 317, t, s)
    ELSE s

\* the if chain of the Tdie block, for a = t[448] and b = t[449]
known_tdie_pair(a, b, s) ==
    IF InPlausibleTemp(a) THEN set_tdie(s, a)
    ELSE IF InPlausibleTemp(b) THEN set_tdie(s, b)
    ELSE IF FGt(a, 0) /\ FGt(b, 0) THEN set_tdie(s, FMean(a, b))
    ELSE s

\* Tdie (indices 448-449)
known_tdie(t, count, s) ==
    IF count > 449
    THEN known_tdie_pair(TableAt(t, 448), TableAt(t, 449), Deref(s, { 448, 449 }))
    ELSE s

\* core clocks GHz (indices 325-340)
known_core_clocks(t, count, s) ==
    IF count > 340
    THEN copy_cores("core_clocks_count", 16, "core_clocks_ghz", 325, t, s)
    ELSE s

\* VID (index 275)
known_vid(t, count, s) ==
    IF count > 275 THEN SetField(Deref(s, { 275 }), "vid", TableAt(t, 275)) ELSE s

\* core voltages (indices 309-316)
known_core_voltages(t, count, s) ==
    IF count > 316
    THEN copy_cores("core_voltages_count", 8, "core_voltages", 309, t, s)
    ELSE s

\* IOD hotspot (index 11)
known_hotspot(t, count, s) ==
    IF count > 11 THEN accept_hotspot(Deref(s, { 11 }), TableAt(t, 11)) ELSE s

read_known_indices(t, count, s) ==
    known_hotspot(t, count,
      known_core_voltages(t, count,
        known_vid(t, count,
          known_core_clocks(t, count,
            known_tdie(t, count,
              known_core_temps(t, count,
                known_ppt(t, count, s)))))))

\* the mutation of core_limit without the clamp to MAX_CORES
core_limit_unclamped(max_cores) == max_cores

\* int nc = map->max_cores; if (nc > MAX_CORES) nc = MAX_CORES;
core_limit(max_cores) == IF max_cores > MAX_CORES THEN MAX_CORES ELSE max_cores

RECURSIVE max_clock_from(_, _, _, _)
\* for (i = 0; i < count; i++) if (clocks[i] > max_ghz) max_ghz = clocks[i];
max_clock_from(i, n, clocks, max_ghz) ==
    IF i >= n \/ i \notin CoreIdx THEN max_ghz
    ELSE max_clock_from(i + 1, n, clocks,
                        IF FGt(clocks[i], max_ghz) THEN clocks[i] ELSE max_ghz)

\* out->field = r.v, for the result r of a candidate loop
StoreFound(f, r, s) == SetField(Deref(s, r.rd), f, r.v)

\* if (max_ghz >= 0.5f && max_ghz <= 6.5f) out->core_clock_mhz = max_ghz * 1000.0f;
core_clock_store(max_ghz, s) ==
    IF FGe(max_ghz, Fl(1, 2)) /\ FLe(max_ghz, Fl(13, 2))
    THEN SetField(s, "core_clock_mhz", FMul1000(max_ghz))
    ELSE s

\* core clock: the maximum of the per-core clocks, if there are any
core_clock_from_cores(s) ==
    IF s.m.core_clocks_count > 0
    THEN core_clock_store(
            max_clock_from(0, s.m.core_clocks_count, s.m.core_clocks_ghz, 0), s)
    ELSE s

\* cpu_temp_c: Tdie if there is one, else the plausible temperature
cpu_temp_granite(t, count, s) ==
    IF s.m.has_tdie /\ FGt(s.m.tdie_c, 0)
    THEN SetField(s, "cpu_temp_c", s.m.tdie_c)
    ELSE StoreFound("cpu_temp_c", try_plausible_temp(t, count), s)

\* the branch of pm_table_read for codename_index == 23
decode_granite_ridge(t, count, s) ==
    cpu_temp_granite(t, count,
      core_clock_from_cores(
        StoreFound("package_current_a", try_plausible_current(t, count),
          StoreFound("package_power_w", try_plausible_power(t, count),
            read_known_indices(t, count,
              read_granite_ridge_offsets(t, count, s))))))

\* per-family core temps
family_core_temps(map, nc, t, count, s) ==
    IF map.core_temp_start + nc <= count
    THEN copy_cores("core_temps_count", nc, "core_temps_c", map.core_temp_start, t, s)
    ELSE s

\* per-family core voltages
family_core_voltages(map, nc, t, count, s) ==
    IF map.core_voltage_start + nc <= count
    THEN copy_cores("core_voltages_count", nc, "core_voltages",
                    map.core_voltage_start, t, s)
    ELSE s

\* float v = safe_get(..., map->vid_idx); if (v > 0) out->vid = v;
family_vid_store(g, s) ==
    IF FGt(g.v, 0) THEN SetField(Deref(s, g.rd), "vid", g.v) ELSE Deref(s, g.rd)

\* float ppt_v = safe_get(..., map->ppt_idx); if plausible, out->ppt_w = ppt_v;
family_ppt_store(g, s) ==
    IF InPlausiblePower(g.v) THEN SetField(Deref(s, g.rd), "ppt_w", g.v)
    ELSE Deref(s, g.rd)

\* float sp = safe_get(..., map->socket_power_idx); out->package_power_w is
\* sp if plausible, else try_plausible_power
family_power_store(g, t, count, s) ==
    IF InPlausiblePower(g.v) THEN SetField(Deref(s, g.rd), "package_power_w", g.v)
    ELSE StoreFound("package_power_w", try_plausible_power(t, count), Deref(s, g.rd))

\* the branch of pm_table_read for every other codename_index, with the
\* descriptor map that get_family_map returned
decode_generic(map, t, count, s) ==
    read_known_indices(t, count,
      StoreFound("cpu_temp_c", try_plausible_temp(t, count),
        StoreFound("package_current_a", try_plausible_current(t, count),
          family_power_store(safe_get(t, count, map.socket_power_idx), t, count,
            family_ppt_store(safe_get(t, count, map.ppt_idx),
              family_vid_store(safe_get(t, count, map.vid_idx),
                family_core_voltages(map, core_limit(map.max_cores), t, count,
                  family_core_temps(map, core_limit(map.max_cores), t, count,
                    apply_named(map, t, count, s)))))))))

\* the mutation of memset_out that leaves the record as the caller passed it
memset_skipped(out) == out

\* memset(out, 0, sizeof(*out))
memset_out(out) == ZeroMetrics

\* the decoder state after the memset
decode_start(out) == [ m |-> memset_out(out), reads |-> {}, oob |-> {} ]

\* pm_table_read with the descriptor made a parameter: the body of
\* pm_table_read once get_family_map has chosen map
pm_decode(map, t, count, codename_index, out) ==
    IF ~t.present \/ count < 4 THEN decode_start(out)
    ELSE IF codename_index = 23 THEN decode_granite_ridge(t, count, decode_start(out))
    ELSE decode_generic(map, t, count, decode_start(out))

pm_table_read(version, t, count, codename_index, out) ==
    pm_decode(get_family_map(version), t, count, codename_index, out)

---------------------------------------------------------------------------
(* Calls of pm_table_read                                                  *)
(*                                                                         *)
(* One behaviour fixes the arguments (version, table, count,               *)
(* codename_index) and calls pm_table_read with them any number of times   *)
(* on the same output record; between two calls the caller may overwrite   *)
(* the record or decode another table into it.                             *)

MaxCount == 600

\* the calls one behaviour makes with its arguments
MaxCalls == 2

CataloguedVersions ==
    { V_380804, V_380805, V_380904, V_380905, V_400005,
      V_240903, V_240803, V_370003, V_370005, V_1E0004 }

\* version tags the switch does not list: 0, a neighbour of a listed tag,
\* 0x540004 and INT32_MAX
OtherVersions == { 0, V_380805 + 1, 5505028, 2147483647 }

PmVersions == CataloguedVersions \cup OtherVersions

PmTables ==
    { [ present |-> FALSE, a |-> 0, b |-> 0 ] } \cup
    { [ present |-> TRUE, a |-> x, b |-> y ] :
        x \in 0 .. (Len(PmVals) - 1), y \in 0 .. (Len(PmVals) - 1) }

\* the table lengths at which a guard of read_known_indices changes, and
\* 270, between the offsets of vddp and vcore
GeneralCounts ==
    { 0 - 1, 0, 3, 4, 11, 12, 270, 275, 276, 316, 317, 324, 325, 340, 341,
      449, 450, MaxCount }

\* the table lengths at which a guard of the generic branch changes for map
FamilyCounts(map) ==
    LET nc == core_limit(map.max_cores)
    IN  { 3, 4, 12, 450, MaxCount,
          map.core_temp_start + nc - 1, map.core_temp_start + nc,
          map.core_voltage_start + nc - 1, map.core_voltage_start + nc,
          map.named[1].index, map.named[1].index + 1 }

\* the tables with a <= 1: constant, or the values in their order
PmTablesSmall == { t \in PmTables : t.a <= 1 }

\* the arguments of the calls: codename_index 23 with every table at every
\* length of GeneralCounts, and with every version at three lengths; two
\* catalogued versions with every table at every length of their
\* FamilyCounts under codename_index 12; every version with the small
\* tables at every length of its FamilyCounts under codename_index -1
PmInputs ==
    { [ version |-> 0, codename_index |-> 23, count |-> c, table |-> t ] :
        c \in GeneralCounts, t \in PmTables }
    \cup
    { [ version |-> ver, codename_index |-> 23, count |-> c, table |-> t ] :
        ver \in PmVersions, c \in { 3, 450, MaxCount },
        t \in { u \in PmTables : u.a = 1 } }
    \cup
    UNION { { [ version |-> ver, codename_index |-> 12, count |-> c, table |-> t ] :
                c \in FamilyCounts(get_family_map(ver)), t \in PmTables } :
            ver \in { V_380804, V_400005 } }
    \cup
    UNION { { [ version |-> ver, codename_index |-> 0 - 1, count |-> c, table |-> t ] :
                c \in FamilyCounts(get_family_map(ver)), t \in PmTablesSmall } :
            ver \in PmVersions }

\* what the record may hold before a call: every float 1.0, every count 16,
\* every flag set
StaleMetrics == FilledMetrics(Fl(1, 1), MAX_CORES, TRUE)

\* the arguments of a call made in between
OtherCall ==
    [ version |-> V_380804, codename_index |-> 23, count |-> MaxCount,
      table |-> [ present |-> TRUE, a |-> 1, b |-> 0 ] ]

PmInit ==
    /\ pm_pc = "ready"
    /\ pm_in \in PmInputs
    /\ pm_map = get_family_map(pm_in.version)
    /\ pm_out = StaleMetrics
    /\ pm_reads = {}
    /\ pm_oob = {}
    /\ pm_seen = {}
    /\ pm_calls = 0

PmIdle ==
    /\ pm_pc = "idle"
    /\ pm_in = OtherCall
    /\ pm_map = GRANITE_RIDGE
    /\ pm_out = ZeroMetrics
    /\ pm_reads = {}
    /\ pm_oob = {}
    /\ pm_seen = {}
    /\ pm_calls = 0

\* pm_table_read(version, table, count, codename_index, &out)
PmTableRead ==
    /\ pm_pc \in { "ready", "done" }
    /\ pm_calls < MaxCalls
    /\ LET s == pm_table_read(pm_in.version, pm_in.table, pm_in.count,
                              pm_in.codename_index, pm_out)
       IN  /\ pm_out' = s.m
           /\ pm_reads' = s.reads
           /\ pm_oob' = s.oob
           /\ pm_seen' = pm_seen \cup { s.m }
           /\ pm_calls' = pm_calls + 1
    /\ pm_pc' = "done"
    /\ UNCHANGED <<pm_in, pm_map>>
    /\ UNCHANGED <<bsVars, drVars, aoVars, bkVars, shVars, cuVars, elVars>>

\* the caller writes the record between two calls
PmCallerWrites ==
    /\ pm_pc = "done"
    /\ pm_calls < MaxCalls
    /\ pm_out' = StaleMetrics
    /\ pm_pc' = "ready"
    /\ UNCHANGED <<pm_in, pm_map, pm_reads, pm_oob, pm_seen, pm_calls>>
    /\ UNCHANGED <<bsVars, drVars, aoVars, bkVars, shVars, cuVars, elVars>>

\* a call with other arguments between two calls
PmOtherRead ==
    /\ pm_pc = "done"
    /\ pm_calls < MaxCalls
    /\ pm_out' = pm_table_read(OtherCall.version, OtherCall.table, OtherCall.count,
                               OtherCall.codename_index, pm_out).m
    /\ pm_pc' = "ready"
    /\ UNCHANGED <<pm_in, pm_map, pm_reads, pm_oob, pm_seen, pm_calls>>
    /\ UNCHANGED <<bsVars, drVars, aoVars, bkVars, shVars, cuVars, elVars>>

---------------------------------------------------------------------------
(* IEEE 754 binary32 arithmetic of dram.c                                  *)
(*                                                                         *)
(* A float is 0 or m * 2^e with 2^23 <= m < 2^24, kept as [m, e]; every    *)
(* operation rounds to nearest, ties to even, as the C operation does.     *)
(* The values of dram.c stay far from the subnormal and infinite ranges.   *)

MantBits == 24

F32Zero == [ m |-> 0, e |-> 0 ]

RECURSIVE BitLen(_)
\* the number of bits of n >= 0
BitLen(n) == IF n = 0 THEN 0 ELSE 1 + BitLen(n \div 2)

\* n * 2^e rounded to a float, for 0 <= n < 2^31; sticky: the exact value
\* lies strictly above n * 2^e (by less than 2^e)
RoundSticky(n, sticky, e) ==
    IF n = 0 THEN F32Zero
    ELSE LET len == BitLen(n)
         IN  IF len <= MantBits
             THEN [ m |-> n * (2 ^ (MantBits - len)), e |-> e - (MantBits - len) ]
             ELSE LET sh   == len - MantBits
                      q    == n \div (2 ^ sh)
                      r    == n % (2 ^ sh)
                      half == 2 ^ (sh - 1)
                      up   == r > half \/ (r = half /\ (sticky \/ q % 2 = 1))
                      q1   == IF up THEN q + 1 ELSE q
                  IN  IF q1 = 2 ^ MantBits
                      THEN [ m |-> 2 ^ (MantBits - 1), e |-> e + sh + 1 ]
                      ELSE [ m |-> q1, e |-> e + sh ]

\* (float)n for a uint32_t n < 2^31
F32FromNat(n) == RoundSticky(n, FALSE, 0)

RECURSIVE OddPart(_)
OddPart(n) == IF n % 2 = 0 THEN OddPart(n \div 2) ELSE n

RECURSIVE TwoPart(_)
TwoPart(n) == IF n % 2 = 0 THEN 1 + TwoPart(n \div 2) ELSE 0

\* a * b, for a constant b whose significand has at most 7 bits (200.0f,
\* 2000.0f): the exact product fits 31 bits before it is rounded
F32Mul(a, b) ==
    IF a.m = 0 \/ b.m = 0 THEN F32Zero
    ELSE RoundSticky(a.m * OddPart(b.m), FALSE, a.e + b.e + TwoPart(b.m))

RECURSIVE DivBits(_, _, _, _)
\* k more quotient bits of r / d by long division: <<quotient, remainder>>
DivBits(q, r, d, k) ==
    IF k = 0 THEN <<q, r>>
    ELSE IF 2 * r >= d THEN DivBits(2 * q + 1, 2 * r - d, d, k - 1)
         ELSE DivBits(2 * q, 2 * r, d, k - 1)

\* a / b for b # 0
F32Div(a, b) ==
    IF a.m = 0 THEN F32Zero
    ELSE LET ip == a.m \div b.m
             qr == DivBits(ip, a.m - ip * b.m, b.m, MantBits + 1)
         IN  RoundSticky(qr[1], qr[2] # 0, a.e - b.e - (MantBits + 1))

\* a > b, for a, b >= 0
F32Gt(a, b) ==
    IF a.m = 0 THEN FALSE
    ELSE IF b.m = 0 THEN TRUE
    ELSE a.e > b.e \/ (a.e = b.e /\ a.m > b.m)

\* a / 2.0f
F32Half(a) == IF a.m = 0 THEN F32Zero ELSE [ m |-> a.m, e |-> a.e - 1 ]

---------------------------------------------------------------------------
(* dram.c: the SMN device                                                  *)

\* the SMN address 0x50000 + 0xhml of a UMC0 register (offset = 0)
Umc(h, m, l) == 327680 + 256 * h + 16 * m + l

\* the register contents of a device: the overrides of smn.set, and below
\* them a pattern chosen by smn.seed (0: every register 0, 1: every
\* register 0xFFFFFFFF, else bits that depend on the address)
SmnWord(smn, address) ==
    IF address \in DOMAIN smn.set THEN smn.set[address]
    ELSE IF smn.seed = 0 THEN {}
    ELSE IF smn.seed = 1 THEN AllOnes
    ELSE { i \in BitIdx : ((i + 1) * smn.seed + (address \div 4)) % 3 = 0 }

\* read_smn with the open failing as it succeeds
read_smn_ignores_failure(smn, address) == SmnWord(smn, address)

\* read_smn: 0 when the device file cannot be opened, written or read back,
\* else the register at the address
read_smn(smn, address) == IF ~smn.avail THEN {} ELSE SmnWord(smn, address)

\* bit_slice(read_smn(offset | address), hi, lo) as a number
SmnSlice(smn, address, hi, lo) == ToNat(bit_slice(read_smn(smn, address), hi, lo))

---------------------------------------------------------------------------
(* dram.c: to_nanoseconds                                                  *)

to_nanoseconds_scaled(cycles, freq_mhz) ==
    F32Div(F32Mul(F32FromNat(cycles), F32FromNat(2000)), freq_mhz)

\* the conversion without the halving
to_nanoseconds_unhalved(ns, cycles) == ns

\* if (ns > (float)cycles) ns /= 2.0f;
to_nanoseconds_halved(ns, cycles) ==
    IF F32Gt(ns, F32FromNat(cycles)) THEN F32Half(ns) ELSE ns

to_nanoseconds(cycles, freq_mhz) ==
    IF freq_mhz.m = 0 THEN F32Zero
    ELSE to_nanoseconds_halved(to_nanoseconds_scaled(cycles, freq_mhz), cycles)

---------------------------------------------------------------------------
(* types.h: dram_timings_t                                                 *)

TimingFields ==
    { "tcl", "trcd_rd", "trcd_wr", "trp", "tras", "trc",
      "trrds", "trrdl", "tfaw", "twr", "tcwl",
      "rtp", "wtrs", "wtrl", "rdwr", "wrrd",
      "rdrd_scl", "wrwr_scl", "rdrd_sc", "rdrd_sd", "rdrd_dd",
      "wrwr_sc", "wrwr_sd", "wrwr_dd", "refi", "wrpre", "rdpre",
      "trc_page", "mod", "mod_pda", "mrd", "mrd_pda",
      "stag", "stag_sb", "cke", "xp", "phy_wrd", "phy_wrl", "phy_rdl",
      "phy_rdl_channel_count", "rfc", "rfc2", "rfcsb" }

NsFields == { "trefi_ns", "trfc_ns", "trfc2_ns", "trfcsb_ns", "frequency_hint_mhz" }

TimingFlags == { "gdm_enabled", "power_down_enabled" }

DramFields ==
    TimingFields \cup NsFields \cup TimingFlags \cup { "cmd2t", "phy_rdl_per_channel" }

\* a dram_timings_t with every integer n, every float x, every flag b and
\* the string s
FilledTimings(n, x, b, s) ==
    [ f \in DramFields |->
        IF f \in TimingFields THEN n
        ELSE IF f \in NsFields THEN x
        ELSE IF f \in TimingFlags THEN b
        ELSE IF f = "cmd2t" THEN s
        ELSE [ i \in 0 .. (MAX_MODULES - 1) |-> n ] ]

ZeroTimings == FilledTimings(0, F32Zero, FALSE, "")

---------------------------------------------------------------------------
(* dram.c: the decoders.  A decoder state d is [m, reads]: the record and  *)
(* the SMN addresses read so far.                                          *)

\* the registers read_common_timings reads
CommonRegs ==
    { Umc(2, 0, 4), Umc(2, 0, 8), Umc(2, 0, 12), Umc(2, 1, 0), Umc(2, 1, 4),
      Umc(2, 1, 8), Umc(2, 1, 12), Umc(2, 2, 0), Umc(2, 2, 4), Umc(2, 2, 8),
      Umc(2, 3, 0), Umc(2, 3, 4), Umc(2, 5, 0), Umc(2, 5, 4), Umc(2, 5, 8),
      Umc(2, 10, 4) }

\* the slice kept as it is
BackfillNever(x, y) == x

\* if (d->x == 0) d->x = d->y, for x and y just sliced
Backfill(x, y) == IF x = 0 THEN y ELSE x

read_common_timings(smn, d) ==
    [ reads |-> d.reads \cup CommonRegs,
      m |-> [ d.m EXCEPT
        !.tcl      = SmnSlice(smn, Umc(2, 0, 4), 5, 0),
        !.trcd_rd  = SmnSlice(smn, Umc(2, 0, 4), 21, 16),
        !.trcd_wr  = Backfill(SmnSlice(smn, Umc(2, 0, 4), 29, 24),
                              SmnSlice(smn, Umc(2, 0, 4), 21, 16)),
        !.tras     = SmnSlice(smn, Umc(2, 0, 4), 14, 8),
        !.trp      = SmnSlice(smn, Umc(2, 0, 8), 21, 16),
        !.trc      = SmnSlice(smn, Umc(2, 0, 8), 7, 0),
        !.trrds    = SmnSlice(smn, Umc(2, 0, 12), 4, 0),
        !.trrdl    = SmnSlice(smn, Umc(2, 0, 12), 12, 8),
        !.tfaw     = SmnSlice(smn, Umc(2, 1, 0), 7, 0),
        !.rtp      = SmnSlice(smn, Umc(2, 0, 12), 28, 24),
        !.wtrs     = SmnSlice(smn, Umc(2, 1, 4), 12, 8),
        !.wtrl     = SmnSlice(smn, Umc(2, 1, 4), 22, 16),
        !.tcwl     = SmnSlice(smn, Umc(2, 1, 4), 5, 0),
        !.twr      = Backfill(SmnSlice(smn, Umc(2, 1, 8), 7, 0),
                              SmnSlice(smn, Umc(2, 1, 4), 12, 8)),
        !.trc_page = SmnSlice(smn, Umc(2, 1, 12), 31, 20),
        !.rdrd_scl = SmnSlice(smn, Umc(2, 2, 0), 29, 24),
        !.rdrd_sc  = SmnSlice(smn, Umc(2, 2, 0), 19, 16),
        !.rdrd_sd  = SmnSlice(smn, Umc(2, 2, 0), 11, 8),
        !.rdrd_dd  = SmnSlice(smn, Umc(2, 2, 0), 3, 0),
        !.wrwr_scl = SmnSlice(smn, Umc(2, 2, 4), 29, 24),
        !.wrwr_sc  = SmnSlice(smn, Umc(2, 2, 4), 19, 16),
        !.wrwr_sd  = SmnSlice(smn, Umc(2, 2, 4), 11, 8),
        !.wrwr_dd  = SmnSlice(smn, Umc(2, 2, 4), 3, 0),
        !.rdwr     = SmnSlice(smn, Umc(2, 2, 8), 13, 8),
        !.wrrd     = SmnSlice(smn, Umc(2, 2, 8), 3, 0),
        !.refi     = SmnSlice(smn, Umc(2, 3, 0), 15, 0),
        !.mod_pda  = SmnSlice(smn, Umc(2, 3, 4), 29, 24),
        !.mrd_pda  = SmnSlice(smn, Umc(2, 3, 4), 21, 16),
        !.mod      = SmnSlice(smn, Umc(2, 3, 4), 13, 8),
        !.mrd      = SmnSlice(smn, Umc(2, 3, 4), 5, 0),
        !.stag     = SmnSlice(smn, Umc(2, 5, 0), 26, 16),
        !.stag_sb  = SmnSlice(smn, Umc(2, 5, 0), 8, 0),
        !.cke      = SmnSlice(smn, Umc(2, 5, 4), 28, 24),
        !.xp       = SmnSlice(smn, Umc(2, 5, 4), 5, 0),
        !.phy_wrd  = SmnSlice(smn, Umc(2, 5, 8), 26, 24),
        !.phy_rdl  = SmnSlice(smn, Umc(2, 5, 8), 23, 16),
        !.phy_wrl  = SmnSlice(smn, Umc(2, 5, 8), 15, 8),
        !.wrpre    = SmnSlice(smn, Umc(2, 10, 4), 10, 8),
        !.rdpre    = SmnSlice(smn, Umc(2, 10, 4), 2, 0) ] ]

\* the frequency from bits [16:0] of the ratio register
ddr5_mem_freq_wide(smn) ==
    F32Mul(F32Div(F32FromNat(SmnSlice(smn, Umc(2, 0, 0), 16, 0)), F32FromNat(100)),
           F32FromNat(200))

\* float ratio = bit_slice(ratio_reg, 15, 0) / 100.0f; mem_freq = ratio * 200.0f
ddr5_mem_freq(smn) ==
    F32Mul(F32Div(F32FromNat(SmnSlice(smn, Umc(2, 0, 0), 15, 0)), F32FromNat(100)),
           F32FromNat(200))

\* the ratio register: frequency hint, GDM, Cmd2T; the refresh register:
\* PowerDown
ddr5_ratio_and_flags(smn, d) ==
    [ reads |-> d.reads \cup { Umc(2, 0, 0), Umc(1, 2, 12) },
      m |-> [ d.m EXCEPT
        !.frequency_hint_mhz = ddr5_mem_freq(smn),
        !.gdm_enabled = (SmnSlice(smn, Umc(2, 0, 0), 18, 18) = 1),
        !.cmd2t = IF SmnSlice(smn, Umc(2, 0, 0), 17, 17) # 0 THEN "2T" ELSE "1T",
        !.power_down_enabled = (SmnSlice(smn, Umc(1, 2, 12), 28, 28) = 1) ] ]

DDR5_TRFC_DEFAULT == FromNat(12583224)              \* 0x00C00138

DDR4_TRFC_DEFAULT == FromNat(554041656)             \* 0x21060138

\* the candidate registers of tRFC/tRFC2 and of tRFCsb, in the order tried
TrfcRegs == << Umc(2, 6, 0), Umc(2, 6, 4), Umc(2, 6, 8), Umc(2, 6, 12) >>

RfcsbRegs == << Umc(2, 12, 0), Umc(2, 12, 4), Umc(2, 12, 8), Umc(2, 12, 12) >>

RECURSIVE ddr5_trfc_reg_nonzero_from(_, _)
\* the loop that also passes over a register reading 0
ddr5_trfc_reg_nonzero_from(smn, i) ==
    IF i > Len(TrfcRegs) THEN {}
    ELSE IF read_smn(smn, TrfcRegs[i]) \notin { DDR5_TRFC_DEFAULT, {} }
         THEN read_smn(smn, TrfcRegs[i])
         ELSE ddr5_trfc_reg_nonzero_from(smn, i + 1)

RECURSIVE ddr5_trfc_reg_from(_, _)
\* for (i ...) if (trfc_regs[i] != 0x00C00138) { trfc_reg = trfc_regs[i]; break; }
ddr5_trfc_reg_from(smn, i) ==
    IF i > Len(TrfcRegs) THEN {}
    ELSE IF read_smn(smn, TrfcRegs[i]) # DDR5_TRFC_DEFAULT
         THEN read_smn(smn, TrfcRegs[i])
         ELSE ddr5_trfc_reg_from(smn, i + 1)

\* if (trfc_reg) { d->rfc = bit_slice(trfc_reg, hi, lo); d->rfc2 = ... }
store_rfc(trfc_reg, hi, lo, hi2, lo2, d) ==
    IF trfc_reg = {} THEN d
    ELSE [ d EXCEPT !.m["rfc"] = ToNat(bit_slice(trfc_reg, hi, lo)),
                    !.m["rfc2"] = ToNat(bit_slice(trfc_reg, hi2, lo2)) ]

ddr5_rfc(smn, d) ==
    store_rfc(ddr5_trfc_reg_from(smn, 1), 15, 0, 31, 16,
              [ d EXCEPT !.reads = @ \cup { TrfcRegs[i] : i \in 1 .. Len(TrfcRegs) } ])

RECURSIVE ddr5_rfcsb_from(_, _)
\* for (i ...) if (rfcsb_regs[i] != 0) { d->rfcsb = rfcsb_regs[i]; break; }
ddr5_rfcsb_from(smn, i) ==
    IF i > Len(RfcsbRegs) THEN 0
    ELSE IF SmnSlice(smn, RfcsbRegs[i], 10, 0) # 0
         THEN SmnSlice(smn, RfcsbRegs[i], 10, 0)
         ELSE ddr5_rfcsb_from(smn, i + 1)

\* no candidate nonzero: the field keeps its (zeroed) value
ddr5_rfcsb(smn, d) ==
    [ reads |-> d.reads \cup { RfcsbRegs[i] : i \in 1 .. Len(RfcsbRegs) },
      m |-> IF ddr5_rfcsb_from(smn, 1) # 0
            THEN [ d.m EXCEPT !.rfcsb = ddr5_rfcsb_from(smn, 1) ]
            ELSE d.m ]

\* the nanosecond conversions at the end of read_ddr5_timings
ddr5_nanoseconds(smn, d) ==
    [ d EXCEPT
        !.m["trefi_ns"]  = to_nanoseconds(d.m.refi, ddr5_mem_freq(smn)),
        !.m["trfc_ns"]   = to_nanoseconds(d.m.rfc, ddr5_mem_freq(smn)),
        !.m["trfc2_ns"]  = to_nanoseconds(d.m.rfc2, ddr5_mem_freq(smn)),
        !.m["trfcsb_ns"] = to_nanoseconds(d.m.rfcsb, ddr5_mem_freq(smn)) ]

read_ddr5_timings(smn, d) ==
    ddr5_nanoseconds(smn,
        ddr5_rfcsb(smn,
            ddr5_rfc(smn,
                read_common_timings(smn,
                    ddr5_ratio_and_flags(smn, d)))))

\* the choice that always takes 0x50260
ddr4_trfc_reg_first(trfc0, trfc1) == trfc0

\* (trfc0 != trfc1) ? ((trfc0 != 0x21060138) ? trfc0 : trfc1) : trfc0
ddr4_trfc_reg(trfc0, trfc1) ==
    IF trfc0 # trfc1
    THEN (IF trfc0 # DDR4_TRFC_DEFAULT THEN trfc0 ELSE trfc1)
    ELSE trfc0

ddr4_rfc(smn, d) ==
    store_rfc(ddr4_trfc_reg(read_smn(smn, TrfcRegs[1]), read_smn(smn, TrfcRegs[2])),
              10, 0, 21, 11,
              [ d EXCEPT !.reads = @ \cup { TrfcRegs[1], TrfcRegs[2] } ])

\* d->cmd2t[0] = '\0'; d->frequency_hint_mhz = 0;
ddr4_no_hint(d) ==
    [ d EXCEPT !.m["cmd2t"] = "", !.m["frequency_hint_mhz"] = F32Zero ]

read_ddr4_timings(smn, d) ==
    ddr4_no_hint(ddr4_rfc(smn, read_common_timings(smn, d)))

\* the case list with 12 (Vermeer) left out
Ddr4CodenamesShort == { 4, 9, 10, 18, 19 }

\* case 4: case 9: case 10: case 12: case 18: case 19:
Ddr4Codenames == { 4, 9, 10, 12, 18, 19 }

\* the memset left out
dram_memset_skipped(out) == out

\* memset(out, 0, sizeof(*out))
dram_memset(out) == ZeroTimings

dram_read_timings(codename_index, smn, out) ==
    IF codename_index = 23
    THEN read_ddr5_timings(smn, [ m |-> dram_memset(out), reads |-> {} ])
    ELSE IF codename_index \in Ddr4Codenames
    THEN read_ddr4_timings(smn, [ m |-> dram_memset(out), reads |-> {} ])
    ELSE [ m |-> dram_memset(out), reads |-> {} ]

---------------------------------------------------------------------------
(* Calls of dram_read_timings                                              *)
(*                                                                         *)
(* One behaviour fixes codename_index and the SMN device and calls         *)
(* dram_read_timings any number of times on the same record; between two   *)
(* calls the caller may overwrite the record or decode another device.     *)

MaxSeed == 5

\* codename indices: the DDR5 one, the DDR4 ones, -1 (unknown CPU),
\* neighbours of the listed ones and values beyond the codename table
DramCodenames == { 4, 9, 10, 12, 18, 19, 23, -1, 0, 5, 11, 22, 24, 40, 2147483647 }

\* contents tried for the two refresh registers both decoders read
TrfcWords == { DDR5_TRFC_DEFAULT, DDR4_TRFC_DEFAULT, {}, FromNat(20316763) }

\* no override, or the first two refresh registers set and the last two at
\* the DDR5 default or apart from it
SmnOverrides ==
    { << >> } \cup
    { (TrfcRegs[1] :> a) @@ (TrfcRegs[2] :> b)
        @@ (TrfcRegs[3] :> c) @@ (TrfcRegs[4] :> DDR5_TRFC_DEFAULT) :
        a \in TrfcWords, b \in TrfcWords, c \in { DDR5_TRFC_DEFAULT, AllOnes } }

\* contents tried for the ratio register 0x50200: 0x0C80 and 0x000F, bare
\* and below other bits, and 0x00050000
RatioWords ==
    { FromNat(3200), FromNat(3200) \cup (16 .. 31), FromNat(15),
      FromNat(15) \cup { 16, 18 }, { 16, 18 } }

\* a device at 3200 MHz (ratio field 1600) with tRFC = tRFC2 = 800 cycles
Ddr5At3200 ==
    [ avail |-> TRUE, seed |-> 0,
      set |-> (Umc(2, 0, 0) :> FromNat(1600))
                @@ (TrfcRegs[1] :> FromNat(800 + 800 * 65536)) ]

\* a device whose 0x50204 holds tCL 40 and tRCDRD 18 with the tRCDWR bits
\* clear, and whose 0x50218 (tWR) reads 0 beside a 0x50214 of all ones
ShortFields ==
    [ avail |-> TRUE, seed |-> 3, set |-> (Umc(2, 0, 4) :> FromNat(1179688)) ]

SmnDevices ==
    { [ avail |-> TRUE, seed |-> sd, set |-> ov ] :
        sd \in 0 .. MaxSeed, ov \in SmnOverrides }
      \cup { [ avail |-> TRUE, seed |-> sd, set |-> (Umc(2, 0, 0) :> w) ] :
                sd \in { 0, 1 }, w \in RatioWords }
      \cup { Ddr5At3200, ShortFields }
      \cup { [ avail |-> FALSE, seed |-> 1, set |-> << >> ] }

DramInputs ==
    { [ codename_index |-> cn, smn |-> dev ] : cn \in DramCodenames, dev \in SmnDevices }

StaleTimings == FilledTimings(1, F32FromNat(1), TRUE, "2T")

\* the call made between two calls with dr_in
OtherDramCall ==
    [ codename_index |-> 23, smn |-> [ avail |-> TRUE, seed |-> 1, set |-> << >> ] ]

DrInit ==
    /\ dr_pc = "ready"
    /\ dr_in \in DramInputs
    /\ dr_out = StaleTimings
    /\ dr_reads = {}
    /\ dr_seen = {}
    /\ dr_calls = 0

DrIdle ==
    /\ dr_pc = "idle"
    /\ dr_in = OtherDramCall
    /\ dr_out = ZeroTimings
    /\ dr_reads = {}
    /\ dr_seen = {}
    /\ dr_calls = 0

\* dram_read_timings(codename_index, &out)
DramReadTimings ==
    /\ dr_pc \in { "ready", "done" }
    /\ dr_calls < MaxCalls
    /\ LET r == dram_read_timings(dr_in.codename_index, dr_in.smn, dr_out)
       IN  /\ dr_out' = r.m
           /\ dr_reads' = r.reads
           /\ dr_seen' = dr_seen \cup { r.m }
           /\ dr_calls' = dr_calls + 1
    /\ dr_pc' = "done"
    /\ UNCHANGED dr_in
    /\ UNCHANGED <<bsVars, pmVars, aoVars, bkVars, shVars, cuVars, elVars>>

\* the caller overwrites the record between two calls
DramCallerWrites ==
    /\ dr_pc = "done"
    /\ dr_calls < MaxCalls
    /\ dr_out' = StaleTimings
    /\ dr_pc' = "ready"
    /\ UNCHANGED <<dr_in, dr_reads, dr_seen, dr_calls>>
    /\ UNCHANGED <<bsVars, pmVars, aoVars, bkVars, shVars, cuVars, elVars>>

\* a call with other arguments between two calls
DramOtherRead ==
    /\ dr_pc = "done"
    /\ dr_calls < MaxCalls
    /\ dr_out' = dram_read_timings(OtherDramCall.codename_index,
                                   OtherDramCall.smn, dr_out).m
    /\ dr_pc' = "ready"
    /\ UNCHANGED <<dr_in, dr_reads, dr_seen, dr_calls>>
    /\ UNCHANGED <<bsVars, pmVars, aoVars, bkVars, shVars, cuVars, elVars>>

---------------------------------------------------------------------------
(* aod_voltages.c: find_aod_phys                                           *)
(*                                                                         *)
(* A byte is a number in 0 .. 255, a buffer a sequence of bytes (the C     *)
(* index i is the sequence index i + 1), a phys_addr_t the sequence of its *)
(* 8 bytes, least significant first.  An SSDT is [oem_table_id, length,    *)
(* aml]: two fields of its header and the bytes that follow the header.    *)

AOD_OEM_ID == << 65, 79, 68, 32, 32, 32, 32, 32 >>          \* "AOD     "

aode_pattern == << 91, 128, 65, 79, 68, 69, 0 >>    \* 5B 80 'A' 'O' 'D' 'E' 00

AcpiHeaderSize == 36                                \* sizeof(struct acpi_table_header)

NoPhys == << 0, 0, 0, 0, 0, 0, 0, 0 >>              \* (phys_addr_t)0

\* memcmp(buf + at, pat, n) == 0
memcmp_equal(buf, at, pat, n) == \A k \in 1 .. n : buf[at + k] = pat[k]

\* the table id test with only the three letters compared
oem_id_matches_letters(hdr) == memcmp_equal(hdr.oem_table_id, 0, AOD_OEM_ID, 3)

\* memcmp(hdr->oem_table_id, AOD_OEM_ID, 8) == 0
oem_id_matches(hdr) == memcmp_equal(hdr.oem_table_id, 0, AOD_OEM_ID, 8)

\* aml_len = hdr->length - (u32)sizeof(*hdr), for a length that covers the header
AmlLen(hdr) == hdr.length - AcpiHeaderSize

\* the DWord operand with its bytes taken most significant first
dword_const_big_endian(aml, at) ==
    << aml[at + 4], aml[at + 3], aml[at + 2], aml[at + 1], 0, 0, 0, 0 >>

\* memcpy(&tmp32, aml + at, 4); addr = tmp32
dword_const(aml, at) == << aml[at + 1], aml[at + 2], aml[at + 3], aml[at + 4], 0, 0, 0, 0 >>

\* memcpy(&addr, aml + at, 8)
qword_const(aml, at) == [ k \in 1 .. 8 |-> aml[at + k] ]

\* the positions one pass of the loop body reads at i: the signature, and
\* past a match the tag and the operand
positions_read(aml, i) ==
    LET n == Len(aode_pattern)
    IN  (i .. (i + n - 1)) \cup
        (IF ~memcmp_equal(aml, i, aode_pattern, n) THEN {}
         ELSE IF aml[i + n + 1] = 12 THEN (i + n) .. (i + n + 4)
         ELSE IF aml[i + n + 1] = 14 THEN (i + n) .. (i + n + 8)
         ELSE { i + n })

\* the loop condition without the tag byte and the two bytes of margin
in_scan_window_operand_only(i, aml_len) == i + Len(aode_pattern) + 8 < aml_len

\* the loop condition with <= for <
in_scan_window_inclusive(i, aml_len) == i + Len(aode_pattern) + 10 <= aml_len

\* i + sizeof(aode_pattern) + 10 < aml_len
in_scan_window(i, aml_len) == i + Len(aode_pattern) + 10 < aml_len

RECURSIVE scan_aml_gives_up(_, _, _, _)
\* the loop with break for the continue after an unknown tag
scan_aml_gives_up(aml, aml_len, i, reads) ==
    LET n == Len(aode_pattern)
    IN  IF ~in_scan_window(i, aml_len)
        THEN [ found |-> FALSE, addr |-> NoPhys, reads |-> reads ]
        ELSE IF ~memcmp_equal(aml, i, aode_pattern, n)
        THEN scan_aml_gives_up(aml, aml_len, i + 1, reads \cup positions_read(aml, i))
        ELSE IF aml[i + n + 1] = 12
        THEN [ found |-> TRUE, addr |-> dword_const(aml, i + n + 1),
               reads |-> reads \cup positions_read(aml, i) ]
        ELSE IF aml[i + n + 1] = 14
        THEN [ found |-> TRUE, addr |-> qword_const(aml, i + n + 1),
               reads |-> reads \cup positions_read(aml, i) ]
        ELSE [ found |-> FALSE, addr |-> NoPhys,
               reads |-> reads \cup positions_read(aml, i) ]

RECURSIVE scan_aml(_, _, _, _)
\* for (i = ...; i + sizeof(aode_pattern) + 10 < aml_len; i++) { ... }
\* from position i on: [found, addr, reads]
scan_aml(aml, aml_len, i, reads) ==
    LET n == Len(aode_pattern)
    IN  IF ~in_scan_window(i, aml_len)
        THEN [ found |-> FALSE, addr |-> NoPhys, reads |-> reads ]
        ELSE IF ~memcmp_equal(aml, i, aode_pattern, n)
        THEN scan_aml(aml, aml_len, i + 1, reads \cup positions_read(aml, i))
        ELSE IF aml[i + n + 1] = 12                  \* 0x0C DWordConst
        THEN [ found |-> TRUE, addr |-> dword_const(aml, i + n + 1),
               reads |-> reads \cup positions_read(aml, i) ]
        ELSE IF aml[i + n + 1] = 14                  \* 0x0E QWordConst
        THEN [ found |-> TRUE, addr |-> qword_const(aml, i + n + 1),
               reads |-> reads \cup positions_read(aml, i) ]
        ELSE scan_aml(aml, aml_len, i + 1, reads \cup positions_read(aml, i))

\* the result of find_aod_phys with the bookkeeping of one more scanned table
aod_scanned(st, idx, r) ==
    [ phys |-> r.addr, found |-> r.found,
      scanned |-> st.scanned \cup { idx },
      reads |-> st.reads \cup { <<idx, p>> : p \in r.reads } ]

RECURSIVE find_aod_phys_from(_, _, _)
\* for (idx = ...; ; idx++): acpi_get_table("SSDT", idx, &hdr) fails past
\* the last table
find_aod_phys_from(tables, idx, st) ==
    IF idx > Len(tables) THEN st
    ELSE IF ~oem_id_matches(tables[idx]) THEN find_aod_phys_from(tables, idx + 1, st)
    ELSE IF aod_scanned(st, idx,
                scan_aml(tables[idx].aml, AmlLen(tables[idx]), 0, {})).found
    THEN aod_scanned(st, idx, scan_aml(tables[idx].aml, AmlLen(tables[idx]), 0, {}))
    ELSE find_aod_phys_from(tables, idx + 1,
            aod_scanned(st, idx, scan_aml(tables[idx].aml, AmlLen(tables[idx]), 0, {})))

find_aod_phys(tables) ==
    find_aod_phys_from(tables, 1,
        [ phys |-> NoPhys, found |-> FALSE, scanned |-> {}, reads |-> {} ])

---------------------------------------------------------------------------
(* aod_voltages.c: the statics of the module                               *)

AOD_REGION_SIZE == 9403                             \* 0x24BB

\* static void *aod_base, before any assignment
NullBase == [ null |-> TRUE, phys |-> NoPhys, size |-> 0 ]

\* the pointer memremap(phys, size, MEMREMAP_WB) returns when it succeeds
memremap(phys, size) == [ null |-> FALSE, phys |-> phys, size |-> size ]

NothingLive == [ maps |-> 0, kobjs |-> 0, groups |-> 0, calls |-> << >> ]

\* what a kernel call that succeeded does to the live resources
kernel_call(live, call) ==
    [ live EXCEPT
        !.maps   = IF call = "memremap" THEN @ + 1
                   ELSE IF call = "memunmap" THEN @ - 1 ELSE @,
        !.kobjs  = IF call = "kobject_create_and_add" THEN @ + 1
                   ELSE IF call = "kobject_put" THEN @ - 1 ELSE @,
        !.groups = IF call = "sysfs_create_group" THEN @ + 1
                   ELSE IF call = "sysfs_remove_group" THEN @ - 1 ELSE @,
        !.calls  = Append(@, call) ]

RECURSIVE kernel_calls(_, _)
\* the calls of a sequence, one after the other
kernel_calls(live, calls) ==
    IF calls = << >> THEN live
    ELSE kernel_calls(kernel_call(live, Head(calls)), Tail(calls))

---------------------------------------------------------------------------
(* Calls of find_aod_phys                                                  *)

MaxTables == 2

\* "AOD     " and ids that differ from it in one place
OemIds ==
    { AOD_OEM_ID,
      << 65, 79, 68, 32, 32, 32, 32, 88 >>,         \* "AOD    X"
      << 97, 111, 100, 32, 32, 32, 32, 32 >>,       \* "aod     "
      << 65, 79, 68, 69, 32, 32, 32, 32 >> }        \* "AODE    "

\* n bytes that belong to no signature
Pad(n) == [ k \in 1 .. n |-> 16 ]

PhysA == << 0, 64, 181, 127 >>                      \* 0x7FB54000

PhysB == << 0, 0, 160, 9, 1, 0, 0, 0 >>             \* 0x109A00000

PhysC == << 0, 16, 0, 0 >>                          \* 0x1000

AmlBuffers ==
    { Pad(18),
      aode_pattern \o << 12 >> \o PhysA \o Pad(6),
      aode_pattern \o << 12 >> \o PhysA \o Pad(5),
      aode_pattern \o << 12 >> \o PhysC \o Pad(6),
      Pad(2) \o aode_pattern \o << 14 >> \o PhysB \o Pad(2),
      aode_pattern \o << 10 >> \o aode_pattern \o << 12 >> \o PhysA \o Pad(6),
      aode_pattern \o << 12, 0, 0, 0, 0 >> \o Pad(6),
      << >>,
      aode_pattern \o << 14 >> \o PhysB,
      aode_pattern \o << 14 >> \o PhysB \o Pad(2) }

\* the buffers of the tables with another id: no signature, or a signature
\* with a valid operand
OtherBuffers == { Pad(18), aode_pattern \o << 12 >> \o PhysA \o Pad(6) }

SsdtTables ==
    { [ oem_table_id |-> AOD_OEM_ID, length |-> AcpiHeaderSize + Len(b), aml |-> b ] :
        b \in AmlBuffers }
    \cup { [ oem_table_id |-> id, length |-> AcpiHeaderSize + Len(b), aml |-> b ] :
              id \in OemIds, b \in OtherBuffers }

AoInit ==
    /\ ao_pc = "ready"
    /\ ao_tables \in UNION { [ 1 .. n -> SsdtTables ] : n \in 0 .. MaxTables }
    /\ ao_phys = NoPhys
    /\ ao_scanned = {}
    /\ ao_reads = {}
    /\ ao_base = NullBase
    /\ ao_kobj = FALSE
    /\ ao_live = NothingLive
    /\ ao_ret = 0

AoIdle ==
    /\ ao_pc = "idle"
    /\ ao_tables = << >>
    /\ ao_phys = NoPhys
    /\ ao_scanned = {}
    /\ ao_reads = {}
    /\ ao_base = NullBase
    /\ ao_kobj = FALSE
    /\ ao_live = NothingLive
    /\ ao_ret = 0

\* phys = find_aod_phys()
FindAodPhys ==
    /\ ao_pc = "ready"
    /\ LET r == find_aod_phys(ao_tables)
       IN  /\ ao_phys' = r.phys
           /\ ao_scanned' = r.scanned
           /\ ao_reads' = r.reads
    /\ ao_pc' = "done"
    /\ UNCHANGED <<ao_tables, ao_base, ao_kobj, ao_live, ao_ret>>
    /\ UNCHANGED <<bsVars, pmVars, drVars, bkVars, shVars, cuVars, elVars>>

---------------------------------------------------------------------------
(* aod_voltages.c: aod_voltages_init and aod_voltages_exit                 *)

ENODEV == 19

ENOMEM == 12

\* what the kernel answers to the three requests of aod_voltages_init:
\* memremap, kobject_create_and_add, sysfs_create_group succeed or fail
KernelAnswers == [ memremap : BOOLEAN, kobject : BOOLEAN, sysfs : BOOLEAN ]

\* aod_voltages_init once find_aod_phys has returned phys: the statics, the
\* live resources and the return value [base, kobj, live, ret]
aod_voltages_init_with(phys, env) ==
    IF phys = NoPhys
    THEN [ base |-> NullBase, kobj |-> FALSE, live |-> NothingLive, ret |-> 0 - ENODEV ]
    ELSE IF ~env.memremap
    THEN [ base |-> NullBase, kobj |-> FALSE, live |-> NothingLive, ret |-> 0 - ENOMEM ]
    ELSE IF ~env.kobject                             \* memunmap(aod_base)
    THEN [ base |-> memremap(phys, AOD_REGION_SIZE), kobj |-> FALSE,
           live |-> kernel_calls(NothingLive, << "memremap", "memunmap" >>),
           ret |-> 0 - ENOMEM ]
    ELSE IF ~env.sysfs                 \* kobject_put(aod_kobj); memunmap(aod_base)
    THEN [ base |-> memremap(phys, AOD_REGION_SIZE), kobj |-> TRUE,
           live |-> kernel_calls(NothingLive,
                        << "memremap", "kobject_create_and_add",
                           "kobject_put", "memunmap" >>),
           ret |-> 0 - ENOMEM ]
    ELSE [ base |-> memremap(phys, AOD_REGION_SIZE), kobj |-> TRUE,
           live |-> kernel_calls(NothingLive,
                        << "memremap", "kobject_create_and_add",
                           "sysfs_create_group" >>),
           ret |-> 0 ]

\* insmod: aod_voltages_init()
AodVoltagesInit ==
    /\ ao_pc = "ready"
    /\ \E env \in KernelAnswers :
          LET r == find_aod_phys(ao_tables)
              m == aod_voltages_init_with(r.phys, env)
          IN  /\ ao_phys' = r.phys
              /\ ao_scanned' = r.scanned
              /\ ao_reads' = r.reads
              /\ ao_base' = m.base
              /\ ao_kobj' = m.kobj
              /\ ao_live' = m.live
              /\ ao_ret' = m.ret
              /\ ao_pc' = IF m.ret = 0 THEN "loaded" ELSE "failed"
    /\ UNCHANGED ao_tables
    /\ UNCHANGED <<bsVars, pmVars, drVars, bkVars, shVars, cuVars, elVars>>

\* aod_voltages_exit with the memunmap ahead of the sysfs_remove_group
aod_voltages_exit_unmaps_first(base, kobj, live) ==
    kernel_calls(live,
        (IF ~base.null THEN << "memunmap" >> ELSE << >>)
        \o (IF kobj THEN << "sysfs_remove_group", "kobject_put" >> ELSE << >>))

\* aod_voltages_exit on the statics: the resources left live
aod_voltages_exit(base, kobj, live) ==
    kernel_calls(live,
        (IF kobj THEN << "sysfs_remove_group", "kobject_put" >> ELSE << >>)
        \o (IF ~base.null THEN << "memunmap" >> ELSE << >>))

\* rmmod: aod_voltages_exit(), of a module whose init returned 0
AodVoltagesExit ==
    /\ ao_pc = "loaded"
    /\ ao_live' = aod_voltages_exit(ao_base, ao_kobj, ao_live)
    /\ ao_pc' = "unloaded"
    /\ UNCHANGED <<ao_tables, ao_phys, ao_scanned, ao_reads, ao_base, ao_kobj, ao_ret>>
    /\ UNCHANGED <<bsVars, pmVars, drVars, bkVars, shVars, cuVars, elVars>>

(***************************************************************************)
(* backend.c: backend_read_summary and the static data it caches.  A       *)
(* string is a TLA+ string; what dmidecode and the firmware scan print is  *)
(* given by its parsed content, NoOutput when the command or the scan      *)
(* yields nothing.                                                         *)
(***************************************************************************)
NoOutput == "(none)"

\* the statics of backend.c at program start: zero-initialised
ZeroStatics ==
    [ processor_name |-> "", board_product |-> "", bios_version |-> "",
      bios_date |-> "", agesa_version |-> "", modules |-> << >> ]

NoRuns == [ processor |-> 0, board |-> 0, memory |-> 0, agesa |-> 0 ]

\* memset(out, 0, sizeof(*out)), on the fields the model keeps
ZeroSummary ==
    [ processor_name |-> "", motherboard |-> "", bios_version |-> "",
      bios_date |-> "", agesa_version |-> "", display_agesa |-> "",
      module_count |-> 0, modules |-> << >>, live |-> "" ]

\* snprintf(s_x, ..., "%s", text) when the command printed something
stored(old, text) == IF text = NoOutput THEN old ELSE text

\* parse_dmidecode_processor: the Version line of "dmidecode -t processor"
parse_dmidecode_processor(s, src) ==
    [ s EXCEPT !.processor_name = stored(@, src.processor) ]

\* parse_dmidecode_board: three dmidecode -s commands
parse_dmidecode_board(s, src) ==
    [ s EXCEPT !.board_product = stored(@, src.board_product),
               !.bios_version = stored(@, src.bios_version),
               !.bios_date = stored(@, src.bios_date) ]

\* parse_dmidecode_memory: the populated devices of "dmidecode -t memory",
\* at most MAX_MODULES of them
parse_dmidecode_memory(s, src) ==
    IF src.memory = NoOutput
    THEN s
    ELSE [ s EXCEPT !.modules = SubSeq(src.memory, 1,
                                  IF Len(src.memory) < MAX_MODULES
                                  THEN Len(src.memory) ELSE MAX_MODULES) ]

\* read_agesa_version: the first AGESA string of the firmware images
read_agesa_version(s, src) ==
    [ s EXCEPT !.agesa_version = stored(@, src.agesa) ]

\* the four parsers run on every call
static_read_always(cached) == TRUE

\* if (!s_cached_static)
static_read_due(cached) == cached = 0

\* backend_read_summary(out): the statics and the counts of parser runs
\* after the call, and the summary it wrote
backend_read_summary(cached, s, runs, src) ==
    LET due == static_read_due(cached)
        s2 == IF due
              THEN read_agesa_version(
                       parse_dmidecode_memory(
                           parse_dmidecode_board(
                               parse_dmidecode_processor(s, src), src), src), src)
              ELSE s
    IN  [ cached |-> IF due THEN 1 ELSE cached,
          static |-> s2,
          runs   |-> IF due THEN [ k \in DOMAIN runs |-> runs[k] + 1 ] ELSE runs,
          out    |-> [ ZeroSummary EXCEPT
                         !.processor_name = s2.processor_name,
                         !.motherboard = s2.board_product,
                         !.bios_version = s2.bios_version,
                         !.bios_date = s2.bios_date,
                         !.agesa_version = s2.agesa_version,
                         !.display_agesa = IF s2.agesa_version # ""
                                           THEN s2.agesa_version ELSE "N/A",
                         !.module_count = Len(s2.modules),
                         !.modules = s2.modules,
                         !.live = src.live ] ]

(***************************************************************************)
(* Calls of backend_read_summary, one per refresh of the window.           *)
(***************************************************************************)
ModuleA == [ part_number |-> "F5-6000", capacity |-> 16 ]
ModuleB == [ part_number |-> "KF560C", capacity |-> 32 ]

\* what the machine answers during one call
StaticSources ==
    [ processor     : { NoOutput, "Ryzen 9 7950X", "Ryzen 7 5800X" },
      board_product : { NoOutput, "B650" },
      bios_version  : { NoOutput, "1.0" },
      bios_date     : { NoOutput, "01/02/2024" },
      memory        : { NoOutput, << >>, << ModuleA >>, << ModuleA, ModuleB >> },
      agesa         : { NoOutput, "ComboAM5PI 1.2.0.2" },
      live          : { "sample 1", "sample 2" } ]

BkInit ==
    /\ bk_pc = "ready"
    /\ bk_cached = 0
    /\ bk_static = ZeroStatics
    /\ bk_runs = NoRuns
    /\ bk_out = ZeroSummary
    /\ bk_calls = 0

BkIdle ==
    /\ bk_pc = "idle"
    /\ bk_cached = 0
    /\ bk_static = ZeroStatics
    /\ bk_runs = NoRuns
    /\ bk_out = ZeroSummary
    /\ bk_calls = 0

BackendReadSummary ==
    /\ bk_pc \in { "ready", "done" }
    /\ bk_calls < MaxCalls
    /\ \E src \in StaticSources :
          LET r == backend_read_summary(bk_cached, bk_static, bk_runs, src)
          IN  /\ bk_cached' = r.cached
              /\ bk_static' = r.static
              /\ bk_runs' = r.runs
              /\ bk_out' = r.out
    /\ bk_pc' = "done"
    /\ bk_calls' = bk_calls + 1
    /\ UNCHANGED <<bsVars, pmVars, drVars, aoVars, shVars, cuVars, elVars>>


(***************************************************************************)
(* aod_voltages.c: the sysfs show handlers of the loaded module.  A read   *)
(* of the region is the offset of its first byte, 4 bytes long.  The       *)
(* content of the region is one of a few kinds; an int is kept in 32 bits. *)
(***************************************************************************)
PAGE_SIZE == 4096

WCNS_OFFSET == 8876

WCNS_SIZE == 512

OUTB_SIZE == 196

SCAN_START == 4

SCAN_END == AOD_REGION_SIZE

MV_MIN == 500

MV_MAX == 3000

\* INT_MAX of a 32-bit int
IntMax == (2^30 - 1) + 2^30

\* a + b on int for b >= 0: the module is built by the kernel's build
\* system, with -fno-strict-overflow, so a sum above INT_MAX wraps
int_add(a, b) ==
    IF b > 0 /\ a > IntMax - b
    THEN (a - IntMax - 1) + (b - IntMax - 1)
    ELSE a + b

\* the outcome of a read that faults
Oops == 0 - 1

\* the u32 at a byte offset of the region
region_word(region, offset) ==
    IF region = "volts" THEN 1200
    ELSE IF region = "rails" /\ offset \in { 9084, 9088 } THEN 1100
    ELSE IF region = "rails" /\ offset = 9092 THEN 1800
    ELSE IF region = "low" /\ offset % 8 = 0 THEN 600
    ELSE 0

\* the number of characters %u prints
digits(n) ==
    IF n < 10 THEN 1 ELSE IF n < 100 THEN 2 ELSE IF n < 1000 THEN 3
    ELSE IF n < 10000 THEN 4 ELSE IF n < 100000 THEN 5 ELSE IF n < 1000000 THEN 6
    ELSE IF n < 10000000 THEN 7 ELSE IF n < 100000000 THEN 8
    ELSE IF n < 1000000000 THEN 9 ELSE 10

\* scnprintf(buf, size, ...) of n characters: what it returns
scnprintf(size, n) == IF size <= 0 THEN 0 ELSE IF n < size THEN n ELSE size - 1

\* read_mv(offset): the value and the offsets memcpy read from aod_base;
\* outside the mapping the read gives junk or faults
read_mv(base, region, offset, junk) ==
    IF base.null \/ offset < 0 \/ int_add(offset, 4) > AOD_REGION_SIZE
    THEN [ v |-> 0, reads |-> {} ]
    ELSE [ v |-> IF offset <= base.size - 4 THEN region_word(region, offset) ELSE junk,
           reads |-> { offset } ]

\* "%6d  0x%04X  %-4s  %u mV (%u.%03u V)\n" for an offset below 0x10000
scan_line(mv) == 35 + digits(mv) + digits(mv \div 1000)

\* the iterations of a loop the model evaluates in one piece
ScanBlock == 16

ahead(i, steps, stop) == IF i + 4 * steps < stop THEN i + 4 * steps ELSE stop

\* one more line of the scan in the buffer: the loop breaks once len is
\* PAGE_SIZE - 64 or more
scan_printed(i, len, reads) ==
    [ i |-> i, len |-> len, full |-> len >= PAGE_SIZE - 64, reads |-> reads ]

RECURSIVE scan_words(_, _, _, _, _, _)
\* for (i = ...; i < SCAN_END - 4; i += 4) { ... }, up to position stop:
\* [i, len, full, reads]
scan_words(base, region, i, len, stop, reads) ==
    IF i >= stop \/ ~(i < SCAN_END - 4)
    THEN [ i |-> i, len |-> len, full |-> FALSE, reads |-> reads ]
    ELSE IF read_mv(base, region, i, 0).v < MV_MIN \/ read_mv(base, region, i, 0).v > MV_MAX
    THEN scan_words(base, region, i + 4, len, stop,
             reads \cup read_mv(base, region, i, 0).reads)
    ELSE IF scan_printed(i, len + scnprintf(PAGE_SIZE - len,
                                      scan_line(read_mv(base, region, i, 0).v)), {}).full
    THEN scan_printed(i, len + scnprintf(PAGE_SIZE - len,
                                   scan_line(read_mv(base, region, i, 0).v)),
             reads \cup read_mv(base, region, i, 0).reads)
    ELSE scan_words(base, region, i + 4,
             len + scnprintf(PAGE_SIZE - len, scan_line(read_mv(base, region, i, 0).v)),
             stop, reads \cup read_mv(base, region, i, 0).reads)

RECURSIVE scan_blocks(_, _, _, _, _, _)
RECURSIVE scan_from(_, _, _, _, _)

\* the loop after a piece r of it, up to position stop
scan_blocks_on(base, region, r, stop, reads) ==
    IF r.full THEN [ r EXCEPT !.reads = reads \cup @ ]
    ELSE scan_blocks(base, region, r.i, r.len, stop, reads \cup r.reads)

\* the scan loop up to position stop, ScanBlock iterations at a time
scan_blocks(base, region, i, len, stop, reads) ==
    IF i >= stop \/ ~(i < SCAN_END - 4)
    THEN [ i |-> i, len |-> len, full |-> FALSE, reads |-> reads ]
    ELSE scan_blocks_on(base, region,
             scan_words(base, region, i, len, ahead(i, ScanBlock, stop), {}),
             stop, reads)

\* the loop after a piece r of it, to its end
scan_from_on(base, region, r, reads) ==
    IF r.full THEN [ r EXCEPT !.reads = reads \cup @ ]
    ELSE scan_from(base, region, r.i, r.len, reads \cup r.reads)

\* the scan loop from position i to its end
scan_from(base, region, i, len, reads) ==
    IF ~(i < SCAN_END - 4)
    THEN [ i |-> i, len |-> len, full |-> FALSE, reads |-> reads ]
    ELSE scan_from_on(base, region,
             scan_blocks(base, region, i, len,
                 ahead(i, ScanBlock * ScanBlock, SCAN_END), {}),
             reads)

\* scan_show: the length it returns and the offsets it read
scan_show(base, region) ==
    IF base.null
    THEN [ status |-> "error", len |-> scnprintf(PAGE_SIZE, 29), mv |-> 0, reads |-> {} ]
    ELSE LET r == scan_from(base, region, SCAN_START, scnprintf(PAGE_SIZE, 60), {})
         IN  [ status |-> "ok",
               len |-> IF r.len <= 32
                       THEN r.len + scnprintf(PAGE_SIZE - r.len, 32) ELSE r.len,
               mv |-> 0, reads |-> r.reads ]

\* show_named(kobj, attr, buf, offset)
show_named(base, region, offset, junk) ==
    IF base.null
    THEN [ status |-> "error", len |-> scnprintf(PAGE_SIZE, 18), mv |-> 0, reads |-> {} ]
    ELSE IF offset < 0 \/ int_add(offset, 4) > AOD_REGION_SIZE
    THEN [ status |-> "unset", len |-> scnprintf(PAGE_SIZE, 61), mv |-> 0, reads |-> {} ]
    ELSE LET r == read_mv(base, region, offset, junk)
         IN  IF r.v = Oops
             THEN [ status |-> "oops", len |-> 0, mv |-> 0, reads |-> r.reads ]
             ELSE [ status |-> "ok",
                    len |-> scnprintf(PAGE_SIZE, digits(r.v) + digits(r.v \div 1000) + 13),
                    mv |-> r.v, reads |-> r.reads ]

mem_vddio_show(base, region, off, junk) == show_named(base, region, off.off_vddio, junk)

mem_vddq_show(base, region, off, junk) == show_named(base, region, off.off_vddq, junk)

mem_vpp_show(base, region, off, junk) == show_named(base, region, off.off_vpp, junk)

RECURSIVE dump_words(_, _, _, _, _, _)
\* for (i = ...; i < end && len < PAGE_SIZE - 48; i += 4) { memcpy(&v,
\* (u8 *)aod_base + i, 4); ... }, up to position stop: "%04X: " every
\* fourth word, "%08X " for each word and "\n" after every fourth
dump_words(i, end, origin, len, stop, reads) ==
    IF i >= stop \/ ~(i < end /\ len < PAGE_SIZE - 48)
    THEN [ i |-> i, len |-> len, reads |-> reads ]
    ELSE dump_words(i + 4, end, origin,
             len + (IF (i - origin) % 16 = 0 THEN 6 ELSE 0) + 9
                 + (IF (i - origin) % 16 = 12 THEN 1 ELSE 0),
             stop, reads \cup { i })

RECURSIVE dump_from(_, _, _, _, _)

\* the loop after a piece r of it
dump_from_on(r, end, origin) == dump_from(r.i, end, origin, r.len, r.reads)

\* the dump loop from position i to its end, ScanBlock iterations at a time
dump_from(i, end, origin, len, reads) ==
    IF ~(i < end /\ len < PAGE_SIZE - 48)
    THEN [ i |-> i, len |-> len, reads |-> reads ]
    ELSE dump_from_on(dump_words(i, end, origin, len, ahead(i, ScanBlock, end), reads),
             end, origin)

\* raw_wcns_show: the dump of OUTB and of WCNS
raw_wcns_show(base) ==
    IF base.null
    THEN [ status |-> "error", len |-> scnprintf(PAGE_SIZE, 18), mv |-> 0, reads |-> {} ]
    ELSE LET outb == dump_from(0, OUTB_SIZE, 0, scnprintf(PAGE_SIZE, 32), {})
             wcns == dump_from(WCNS_OFFSET, WCNS_OFFSET + WCNS_SIZE, WCNS_OFFSET,
                         outb.len + scnprintf(PAGE_SIZE - outb.len, 34), outb.reads)
         IN  [ status |-> "ok", len |-> wcns.len, mv |-> 0, reads |-> wcns.reads ]

(***************************************************************************)
(* Reads of the attributes of a loaded module: the group exists, so the    *)
(* region is mapped.                                                       *)
(***************************************************************************)
MaxShows == 1

\* static int off_vddio = 9084, off_vddq = 9088, off_vpp = 9092
DefaultOffsets == [ off_vddio |-> 9084, off_vddq |-> 9088, off_vpp |-> 9092 ]

\* values insmod is given for a parameter
OffsetValues ==
    { 0 - IntMax - 1, 0 - 1, 0, AOD_REGION_SIZE - 4, AOD_REGION_SIZE - 3,
      AOD_REGION_SIZE, IntMax - 4, IntMax - 3, IntMax }

\* the defaults, one parameter given, or all three given the same value
ModuleParameters ==
    { DefaultOffsets }
    \cup { [ DefaultOffsets EXCEPT ![p] = o ] :
             p \in DOMAIN DefaultOffsets, o \in OffsetValues }
    \cup { [ p \in DOMAIN DefaultOffsets |-> o ] : o \in OffsetValues }

RegionKinds == { "zeros", "volts", "rails", "low" }

\* what a read outside the mapping gives
JunkWords == { 0, 1200, Oops }

\* aod_base of a loaded module
LoadedBase == memremap(PhysA, AOD_REGION_SIZE)

NoShow == [ attr |-> "", status |-> "", len |-> 0, mv |-> 0 ]

shown(attr, r) == [ attr |-> attr, status |-> r.status, len |-> r.len, mv |-> r.mv ]

ShInit ==
    /\ sh_pc = "ready"
    /\ sh_off \in ModuleParameters
    /\ sh_region \in RegionKinds
    /\ sh_reads = {}
    /\ sh_out = NoShow
    /\ sh_calls = 0

ShIdle ==
    /\ sh_pc = "idle"
    /\ sh_off = DefaultOffsets
    /\ sh_region = "zeros"
    /\ sh_reads = {}
    /\ sh_out = NoShow
    /\ sh_calls = 0

\* cat /sys/kernel/aod_voltages/scan
ScanShow ==
    /\ sh_pc \in { "ready", "done" }
    /\ sh_calls < MaxShows
    /\ LET r == scan_show(LoadedBase, sh_region)
       IN  /\ sh_reads' = r.reads
           /\ sh_out' = shown("scan", r)
    /\ sh_pc' = "done"
    /\ sh_calls' = sh_calls + 1
    /\ UNCHANGED <<sh_off, sh_region>>
    /\ UNCHANGED <<bsVars, pmVars, drVars, aoVars, bkVars, cuVars, elVars>>

\* cat /sys/kernel/aod_voltages/mem_vddio
MemVddioShow ==
    /\ sh_pc \in { "ready", "done" }
    /\ sh_calls < MaxShows
    /\ \E junk \in JunkWords :
          LET r == mem_vddio_show(LoadedBase, sh_region, sh_off, junk)
          IN  /\ sh_reads' = r.reads
              /\ sh_out' = shown("mem_vddio", r)
    /\ sh_pc' = "done"
    /\ sh_calls' = sh_calls + 1
    /\ UNCHANGED <<sh_off, sh_region>>
    /\ UNCHANGED <<bsVars, pmVars, drVars, aoVars, bkVars, cuVars, elVars>>

\* cat /sys/kernel/aod_voltages/mem_vddq
MemVddqShow ==
    /\ sh_pc \in { "ready", "done" }
    /\ sh_calls < MaxShows
    /\ \E junk \in JunkWords :
          LET r == mem_vddq_show(LoadedBase, sh_region, sh_off, junk)
          IN  /\ sh_reads' = r.reads
              /\ sh_out' = shown("mem_vddq", r)
    /\ sh_pc' = "done"
    /\ sh_calls' = sh_calls + 1
    /\ UNCHANGED <<sh_off, sh_region>>
    /\ UNCHANGED <<bsVars, pmVars, drVars, aoVars, bkVars, cuVars, elVars>>

\* cat /sys/kernel/aod_voltages/mem_vpp
MemVppShow ==
    /\ sh_pc \in { "ready", "done" }
    /\ sh_calls < MaxShows
    /\ \E junk \in JunkWords :
          LET r == mem_vpp_show(LoadedBase, sh_region, sh_off, junk)
          IN  /\ sh_reads' = r.reads
              /\ sh_out' = shown("mem_vpp", r)
    /\ sh_pc' = "done"
    /\ sh_calls' = sh_calls + 1
    /\ UNCHANGED <<sh_off, sh_region>>
    /\ UNCHANGED <<bsVars, pmVars, drVars, aoVars, bkVars, cuVars, elVars>>

\* cat /sys/kernel/aod_voltages/raw_wcns
RawWcnsShow ==
    /\ sh_pc \in { "ready", "done" }
    /\ sh_calls < MaxShows
    /\ LET r == raw_wcns_show(LoadedBase)
       IN  /\ sh_reads' = r.reads
           /\ sh_out' = shown("raw_wcns", r)
    /\ sh_pc' = "done"
    /\ sh_calls' = sh_calls + 1
    /\ UNCHANGED <<sh_off, sh_region>>
    /\ UNCHANGED <<bsVars, pmVars, drVars, aoVars, bkVars, cuVars, elVars>>


(***************************************************************************)
(* backend.c: read_core_usage.  A uint64_t is kept as the integer of       *)
(* small magnitude it is congruent to modulo 2^64: sums and differences    *)
(* are the integer ones, a negative integer s stands for 2^64 + s.  The    *)
(* floats are binary32, as above.                                          *)
(***************************************************************************)
MAX_LOGICAL_CPUS == 256

LogicalCpus == 0 .. (MAX_LOGICAL_CPUS - 1)

F32One == F32FromNat(1)

F32Hundred == F32FromNat(100)

\* (float)x of a uint64_t: 2^64 + s rounds to 2^64 for the s of the model
u64_to_float(s) ==
    IF s >= 0 THEN F32FromNat(s) ELSE [ m |-> 2 ^ (MantBits - 1), e |-> 65 - MantBits ]

\* 1.0f - r for 0 <= r <= 1
F32OneMinus(r) ==
    IF r.m = 0 THEN F32One
    ELSE IF 0 - r.e <= 30 THEN RoundSticky(2 ^ (0 - r.e) - r.m, FALSE, r.e)
    ELSE IF 0 - r.e - 30 >= MantBits THEN RoundSticky(2 ^ 30 - 1, TRUE, 0 - 30)
    ELSE IF r.m % (2 ^ (0 - r.e - 30)) = 0
    THEN RoundSticky(2 ^ 30 - r.m \div (2 ^ (0 - r.e - 30)), FALSE, 0 - 30)
    ELSE RoundSticky(2 ^ 30 - r.m \div (2 ^ (0 - r.e - 30)) - 1, TRUE, 0 - 30)

\* hi + lo for floats hi.e >= lo.e, both above 0
F32AddOrdered(hi, lo) ==
    IF hi.e - lo.e <= 6 THEN RoundSticky(hi.m * (2 ^ (hi.e - lo.e)) + lo.m, FALSE, lo.e)
    ELSE IF hi.e - lo.e - 6 >= MantBits THEN RoundSticky(hi.m * 64, TRUE, hi.e - 6)
    ELSE RoundSticky(hi.m * 64 + lo.m \div (2 ^ (hi.e - lo.e - 6)),
             lo.m % (2 ^ (hi.e - lo.e - 6)) # 0, hi.e - 6)

\* a + b for a, b >= 0
F32Add(a, b) ==
    IF a.m = 0 THEN b
    ELSE IF b.m = 0 THEN a
    ELSE IF a.e >= b.e THEN F32AddOrdered(a, b) ELSE F32AddOrdered(b, a)

\* if (usage < 0) usage = 0; if (usage > 100) usage = 100; for the usage
\* (1.0f - r) * 100.0f, which is below 0 when r is above 1
clamped_usage(r) ==
    IF F32Gt(r, F32One) THEN F32Zero
    ELSE IF F32Gt(F32Mul(F32OneMinus(r), F32Hundred), F32Hundred) THEN F32Hundred
    ELSE F32Mul(F32OneMinus(r), F32Hundred)

\* every sample has a previous one
sample_usage_unguarded(prev, idle_all, total) ==
    IF total - prev.total # 0
    THEN clamped_usage(F32Div(u64_to_float(idle_all - prev.idle),
                              u64_to_float(total - prev.total)))
    ELSE F32Zero

\* float usage = 0; if (s_prev_valid[cpuid]) { di = ...; dt = ...;
\* if (dt > 0) usage = (1.0f - (float)di / (float)dt) * 100.0f, clamped }
sample_usage(prev, idle_all, total) ==
    IF prev.valid /\ total - prev.total # 0
    THEN clamped_usage(F32Div(u64_to_float(idle_all - prev.idle),
                              u64_to_float(total - prev.total)))
    ELSE F32Zero

\* the k-th counter of a line: sscanf leaves the counters it did not
\* convert at 0
counter(line, k) == IF k <= Len(line.vals) THEN line.vals[k] ELSE 0

\* user + nice + sys + idle + iowait + irq + softirq + steal + guest + gnice
total_of(line) ==
    counter(line, 1) + counter(line, 2) + counter(line, 3) + counter(line, 4)
    + counter(line, 5) + counter(line, 6) + counter(line, 7) + counter(line, 8)
    + counter(line, 9) + counter(line, 10)

\* idle + iowait
idle_all_of(line) == counter(line, 4) + counter(line, 5)

\* the body of the while loop for one "cpuN ..." line: the statics and the
\* locals logical_usage, logical_count after it
usage_line(st, line) ==
    IF 1 + Len(line.vals) < 5 THEN st
    ELSE IF line.cpuid < 0 \/ line.cpuid >= MAX_LOGICAL_CPUS THEN st
    ELSE IF total_of(line) = 0 THEN st
    ELSE [ prev |-> [ st.prev EXCEPT ![line.cpuid] =
                        [ idle |-> idle_all_of(line), total |-> total_of(line),
                          valid |-> TRUE ] ],
           logical_usage |-> [ st.logical_usage EXCEPT ![line.cpuid] =
                                 sample_usage(st.prev[line.cpuid],
                                     idle_all_of(line), total_of(line)) ],
           logical_count |-> IF line.cpuid >= st.logical_count
                             THEN line.cpuid + 1 ELSE st.logical_count ]

RECURSIVE usage_lines(_, _)
\* while (fgets(line, sizeof(line), f)) { ... }
usage_lines(st, lines) ==
    IF lines = << >> THEN st
    ELSE usage_lines(usage_line(st, Head(lines)), Tail(lines))

\* max_core without the limit of MAX_CORES
max_core_uncapped(logical_count) == (logical_count + 1) \div 2

\* int max_core = (logical_count + 1) / 2; if (max_core > MAX_CORES) ...
max_core_of(logical_count) ==
    IF (logical_count + 1) \div 2 > MAX_CORES THEN MAX_CORES
    ELSE (logical_count + 1) \div 2

\* core N = avg(cpu 2N, cpu 2N+1), of the logical CPUs below logical_count
core_average(st, c) ==
    IF 2 * c + 1 < st.logical_count
    THEN F32Div(F32Add(st.logical_usage[2 * c], st.logical_usage[2 * c + 1]),
                F32FromNat(2))
    ELSE IF 2 * c < st.logical_count
    THEN F32Div(st.logical_usage[2 * c], F32FromNat(1))
    ELSE F32Zero

\* read_core_usage(m): the statics, the metrics and, for the record, the
\* local logical_usage after the call
read_core_usage(prev, m, stat) ==
    IF ~stat.readable
    THEN [ prev |-> prev, m |-> m, logical_usage |-> [ c \in LogicalCpus |-> F32Zero ] ]
    ELSE LET st == usage_lines([ prev |-> prev,
                                 logical_usage |-> [ c \in LogicalCpus |-> F32Zero ],
                                 logical_count |-> 0 ], stat.lines)
         IN  [ prev |-> st.prev,
               m |-> [ core_usage_pct |->
                         [ c \in 0 .. (max_core_of(st.logical_count) - 1) |->
                             core_average(st, c) ]
                         @@ m.core_usage_pct,
                       core_usage_count |-> max_core_of(st.logical_count) ],
               logical_usage |-> st.logical_usage ]

(***************************************************************************)
(* Polls of /proc/stat, one per refresh.                                   *)
(***************************************************************************)
MaxPolls == 3

\* "cpuN user 0 0 idle iowait ..."
StatLine(cpuid, user, idle, iowait) ==
    [ cpuid |-> cpuid, vals |-> << user, 0, 0, idle, iowait, 0, 0, 0, 0, 0 >> ]

Readable(lines) == [ readable |-> TRUE, lines |-> lines ]

\* what /proc/stat holds at a poll: counters that grow, stand still and
\* decrease, CPUs 0 to 2, 40, 255 and 256, short and empty lines
ProcStats ==
    { [ readable |-> FALSE, lines |-> << >> ],
      Readable(<< StatLine(0, 10, 10, 0), StatLine(1, 20, 0, 0) >>),
      Readable(<< StatLine(0, 30, 15, 5), StatLine(1, 20, 0, 0) >>),
      Readable(<< StatLine(0, 5, 4, 1), StatLine(1, 90, 30, 0) >>),
      Readable(<< StatLine(0, 40, 5, 0) >>),
      Readable(<< StatLine(0, 1, 12, 0), StatLine(2, 7, 3, 0) >>),
      Readable(<< StatLine(0, 0 - 1, 3, 0), StatLine(1, 0, 0 - 1, 0) >>),
      Readable(<< StatLine(40, 8, 8, 0), StatLine(255, 6, 2, 0) >>),
      Readable(<< StatLine(40, 9, 40, 0), StatLine(255, 7, 3, 0) >>),
      Readable(<< StatLine(MAX_LOGICAL_CPUS, 4, 4, 0), StatLine(3, 0, 0, 0),
                  [ cpuid |-> 2, vals |-> << 5, 5, 5 >> ],
                  [ cpuid |-> 1, vals |-> << 5, 5, 5, 6 >> ] >>) }

\* the statics at program start: zero-initialised
NoPrevious == [ c \in LogicalCpus |-> [ idle |-> 0, total |-> 0, valid |-> FALSE ] ]

\* memset(out, 0, sizeof(*out)), on the two fields of the metrics
ZeroUsage == [ core_usage_pct |-> [ c \in 0 .. (MAX_CORES - 1) |-> F32Zero ],
               core_usage_count |-> 0 ]

CuInit ==
    /\ cu_pc = "ready"
    /\ cu_prev = NoPrevious
    /\ cu_logical = [ c \in LogicalCpus |-> F32Zero ]
    /\ cu_out = ZeroUsage
    /\ cu_polls = 0

CuIdle ==
    /\ cu_pc = "idle"
    /\ cu_prev = << >>
    /\ cu_logical = << >>
    /\ cu_out = ZeroUsage
    /\ cu_polls = 0

\* backend_read_summary: memset(out, 0, sizeof(*out)); ...
\* read_core_usage(&out->metrics)
ReadCoreUsage ==
    /\ cu_pc \in { "ready", "done" }
    /\ cu_polls < MaxPolls
    /\ \E stat \in ProcStats :
          LET r == read_core_usage(cu_prev, ZeroUsage, stat)
          IN  /\ cu_prev' = r.prev
              /\ cu_logical' = r.logical_usage
              /\ cu_out' = r.m
    /\ cu_pc' = "done"
    /\ cu_polls' = cu_polls + 1
    /\ UNCHANGED <<bsVars, pmVars, drVars, aoVars, bkVars, shVars, elVars>>


(***************************************************************************)
(* main.c: elevate_if_necessary.  new_argv is the number of pointers       *)
(* malloc was asked for and the indices the function stored at.            *)
(***************************************************************************)
\* const char *env_vars[], without the terminating NULL
env_vars ==
    << "DISPLAY", "WAYLAND_DISPLAY", "XDG_RUNTIME_DIR", "XAUTHORITY",
       "DBUS_SESSION_BUS_ADDRESS", "XDG_CONFIG_HOME", "HOME",
       "AVALONIA_SCREEN_SCALE_FACTORS" >>

\* char env_bufs[16][512]
ENV_BUFS == 16

\* for (int i = 0; env_vars[i]; i++) if (getenv(env_vars[i])) env_count++
env_count(env) == Cardinality({ i \in 1 .. Len(env_vars) : env_vars[i] \in env })

RECURSIVE env_args(_, _, _, _)
\* for (int i = 0; env_vars[i] && ei < 16; i++) { ... new_argv[n++] =
\* env_bufs[ei]; ei++; }: [n, ei, stores] after the loop from env_vars[i] on
env_args(env, i, st, limit) ==
    IF i > Len(env_vars) \/ ~(st.ei < limit) THEN st
    ELSE IF env_vars[i] \in env
    THEN env_args(env, i + 1,
             [ n |-> st.n + 1, ei |-> st.ei + 1, stores |-> st.stores \cup { st.n } ],
             limit)
    ELSE env_args(env, i + 1, st, limit)

\* if (getenv("WAYLAND_DISPLAY")) { ...; new_argv[n++] = env_bufs[ei++]; }
wayland_hint(env, st) ==
    IF "WAYLAND_DISPLAY" \in env
    THEN [ n |-> st.n + 1, ei |-> st.ei + 1, stores |-> st.stores \cup { st.n } ]
    ELSE st

\* for (int i = 1; i < argc; i++) new_argv[n++] = argv[i]; new_argv[n] = NULL
original_args(argc, st) ==
    [ n |-> st.n + (IF argc > 1 THEN argc - 1 ELSE 0),
      ei |-> st.ei,
      stores |-> st.stores
                 \cup { st.n + k : k \in 0 .. (IF argc > 1 THEN argc - 2 ELSE 0 - 1) }
                 \cup { st.n + (IF argc > 1 THEN argc - 1 ELSE 0) } ]

NotElevated == [ allocated |-> 0, stores |-> {}, exec |-> FALSE ]

\* elevate_if_necessary(argc, argv): the pointers allocated for new_argv,
\* the indices of new_argv stored at, and whether execvp was reached
elevate_if_necessary(argc, run) ==
    IF run.euid = 0 THEN NotElevated
    ELSE IF ~run.malloc THEN NotElevated
    ELSE IF ~run.readlink
    THEN [ allocated |-> 2 + env_count(run.env) + (argc - 1) + 1, stores |-> { 0 },
           exec |-> FALSE ]
    ELSE [ allocated |-> 2 + env_count(run.env) + (argc - 1) + 1,
           stores |-> original_args(argc,
                          wayland_hint(run.env,
                              env_args(run.env, 1,
                                  [ n |-> 2, ei |-> 0, stores |-> { 0, 1 } ],
                                  ENV_BUFS))).stores,
           exec |-> TRUE ]

(***************************************************************************)
(* Starts of the program.                                                  *)
(***************************************************************************)
MaxArgc == 3

\* the effective user, the environment and what malloc and readlink answer
Runs ==
    [ euid : { 0, 1000 }, env : SUBSET { env_vars[i] : i \in 1 .. Len(env_vars) },
      malloc : BOOLEAN, readlink : BOOLEAN ]

ElInit ==
    /\ el_pc = "ready"
    /\ el_argc \in 1 .. MaxArgc
    /\ el_run \in Runs
    /\ el_out = NotElevated

ElIdle ==
    /\ el_pc = "idle"
    /\ el_argc = 1
    /\ el_run = [ euid |-> 0, env |-> {}, malloc |-> TRUE, readlink |-> TRUE ]
    /\ el_out = NotElevated

\* main: elevate_if_necessary(argc, argv)
ElevateIfNecessary ==
    /\ el_pc = "ready"
    /\ el_out' = elevate_if_necessary(el_argc, el_run)
    /\ el_pc' = "done"
    /\ UNCHANGED <<el_argc, el_run>>
    /\ UNCHANGED <<bsVars, pmVars, drVars, aoVars, bkVars, shVars, cuVars>>


---------------------------------------------------------------------------
(* Specifications: one per component, the other components idle            *)

InitBits == BsInit /\ PmIdle /\ DrIdle /\ AoIdle /\ BkIdle /\ ShIdle /\ CuIdle /\ ElIdle

NextBits == BitSlice

SpecBits == InitBits /\ [][NextBits]_vars

InitPm == PmInit /\ BsIdle /\ DrIdle /\ AoIdle /\ BkIdle /\ ShIdle /\ CuIdle /\ ElIdle

NextPm == PmTableRead \/ PmCallerWrites \/ PmOtherRead

SpecPm == InitPm /\ [][NextPm]_vars

InitDram == DrInit /\ BsIdle /\ PmIdle /\ AoIdle /\ BkIdle /\ ShIdle /\ CuIdle /\ ElIdle

NextDram == DramReadTimings \/ DramCallerWrites \/ DramOtherRead

SpecDram == InitDram /\ [][NextDram]_vars

\* the two decoders: a behaviour calls one of them again and again
InitDec ==
    \/ PmInit /\ DrIdle /\ BsIdle /\ AoIdle /\ BkIdle /\ ShIdle /\ CuIdle /\ ElIdle
    \/ DrInit /\ PmIdle /\ BsIdle /\ AoIdle /\ BkIdle /\ ShIdle /\ CuIdle /\ ElIdle

NextDec ==
    \/ PmTableRead \/ PmCallerWrites \/ PmOtherRead
    \/ DramReadTimings \/ DramCallerWrites \/ DramOtherRead

SpecDec == InitDec /\ [][NextDec]_vars

InitAod == AoInit /\ BsIdle /\ PmIdle /\ DrIdle /\ BkIdle /\ ShIdle /\ CuIdle /\ ElIdle

NextAod == FindAodPhys \/ AodVoltagesInit \/ AodVoltagesExit

SpecAod == InitAod /\ [][NextAod]_vars

InitBackend == BkInit /\ BsIdle /\ PmIdle /\ DrIdle /\ AoIdle /\ ShIdle /\ CuIdle /\ ElIdle

NextBackend == BackendReadSummary

SpecBackend == InitBackend /\ [][NextBackend]_vars

InitShow == ShInit /\ BsIdle /\ PmIdle /\ DrIdle /\ AoIdle /\ BkIdle /\ CuIdle /\ ElIdle

NextShow == ScanShow \/ MemVddioShow \/ MemVddqShow \/ MemVppShow \/ RawWcnsShow

SpecShow == InitShow /\ [][NextShow]_vars

InitUsage == CuInit /\ BsIdle /\ PmIdle /\ DrIdle /\ AoIdle /\ BkIdle /\ ShIdle /\ ElIdle

NextUsage == ReadCoreUsage

SpecUsage == InitUsage /\ [][NextUsage]_vars

InitElevate == ElInit /\ BsIdle /\ PmIdle /\ DrIdle /\ AoIdle /\ BkIdle /\ ShIdle /\ CuIdle

NextElevate == ElevateIfNecessary

SpecElevate == InitElevate /\ [][NextElevate]_vars

---------------------------------------------------------------------------
(* Claims about bit_slice                                                  *)

\* C1: for every word and every 0 <= lo <= hi <= 31, bit_slice(word, hi, lo)
\* is the bit field [lo, hi] of the word, right aligned: bit i of the result
\* is bit lo+i of the word for i < hi-lo+1 and 0 above, which is
\* (word >> lo) & ((1 << (hi-lo+1)) - 1), the full word when the width is 32;
\* numerically (word div 2^lo) mod 2^(hi-lo+1) wherever that fits a 32 bit
\* signed integer.  Whenever hi < lo or hi-lo+1 > 32 the result is 0.
C1_BitSliceContract ==
    bs_pc = "done" =>
        LET width == bs_hi - bs_lo + 1 IN
        /\ (0 <= bs_lo /\ bs_lo <= bs_hi /\ bs_hi <= 31) =>
              /\ bs_res = { i \in BitIdx : i < width /\ (i + bs_lo) \in bs_val }
              /\ (width = 32) => bs_res = bs_val
              /\ (31 \notin bs_val /\ bs_lo <= 30 /\ width <= 30) =>
                    ToNat(bs_res) = (ToNat(bs_val) \div (2 ^ bs_lo)) % (2 ^ width)
        /\ (bs_hi < bs_lo \/ width > 32) => bs_res = {}

\* C1 witness: a call with 0 <= lo <= hi <= 31: bits [11:8] of 0x0C80 are 0xC
C1_Witness ==
    /\ bs_pc = "done"
    /\ bs_val = FromNat(3200)
    /\ bs_hi = 11
    /\ bs_lo = 8
    /\ bs_res = FromNat(12)

---------------------------------------------------------------------------
(* Claims about pm_table_read                                              *)

\* the last step was a call of pm_table_read that got past its guard
PmDecoded == pm_pc = "done" /\ pm_in.table.present /\ pm_in.count >= 4

\* v is a float in [lo/8, hi/8]
Within(v, lo, hi) == v # NaN /\ lo <= v /\ v <= hi

\* C2: pm_table_read called with a null table or with count < 4 leaves the
\* output record entirely zero (every value 0, every count 0, every flag
\* false), for every version and codename_index, whatever the record held
\* before the call.
C2_ShortTableZeroRecord ==
    (pm_pc = "done" /\ (~pm_in.table.present \/ pm_in.count < 4)) =>
        /\ \A f \in ScalarFields : pm_out[f] = 0
        /\ \A f \in CountFields : pm_out[f] = 0
        /\ \A f \in FlagFields : pm_out[f] = FALSE
        /\ \A f \in CoreArrayFields : \A i \in CoreIdx : pm_out[f][i] = 0
        /\ \A i \in 0 .. (MAX_MODULES - 1) : pm_out["spd_temps_c"][i] = 0

\* C2 witness: a call with a table of 3 elements has returned on a record
\* that held other values before
C2_Witness ==
    /\ pm_pc = "done"
    /\ pm_in.table.present
    /\ pm_in.count = 3
    /\ pm_in.version = V_380804
    /\ pm_out = ZeroMetrics

\* C3: for every version, codename_index and count >= 4, pm_table_read
\* dereferences only table elements whose index lies in [0, count); a
\* named, byte-offset, per-core or sensor index >= count is never read and
\* leaves its field 0, its count 0 or its flag unset.
C3_ReadsInBounds ==
    /\ pm_pc = "done" => \A i \in pm_reads : 0 <= i /\ i < pm_in.count
    /\ (pm_pc = "done" /\ ~PmDecoded) => pm_reads = {}
    /\ (PmDecoded /\ pm_in.codename_index # 23) =>
          /\ \A k \in 1 .. pm_map.named_count :
                (pm_map.named[k].index >= pm_in.count
                     /\ pm_map.named[k].field # F_IOD_HOTSPOT)
                 => pm_out[pm_map.named[k].field] = 0
          /\ pm_map.core_temp_start + pm_map.max_cores > pm_in.count
                 /\ pm_in.count <= 324
               => pm_out.core_temps_count = 0
          /\ pm_map.core_voltage_start + pm_map.max_cores > pm_in.count
                 /\ pm_in.count <= 316
               => pm_out.core_voltages_count = 0
    /\ (PmDecoded /\ pm_in.codename_index = 23) =>
          \A k \in 1 .. Len(OffsetFields) :
              (OffsetFields[k][2] \div 4 >= pm_in.count)
              => pm_out[OffsetFields[k][1]] = 0
    /\ (PmDecoded /\ pm_in.count <= 449) => (~pm_out.has_tdie /\ pm_out.tdie_c = 0)
    /\ (PmDecoded /\ pm_in.count <= 340) => pm_out.core_clocks_count = 0

\* C3 witness: a call with 12 elements under the Vermeer map: fclk (index
\* 48) is beyond the table, is not read and stays 0 although the table
\* pattern holds a nonzero value there, while index 11 is read
C3_Witness ==
    /\ PmDecoded
    /\ pm_in.count = 12
    /\ pm_in.version = V_380804
    /\ pm_in.codename_index # 23
    /\ TableAt(pm_in.table, 48) = Fl(200, 1)
    /\ 11 \in pm_reads
    /\ 48 \notin pm_reads
    /\ pm_out.fclk_mhz = 0

\* C5: get_family_map is total: each of the ten catalogued version tags
\* resolves to its own descriptor, every other version resolves to the one
\* default descriptor GRANITE_RIDGE, and a decode with an unrecognised
\* version goes through with that descriptor's indices.
C5_FamilyLookupTotal ==
    LET own == { <<V_380804, "VERMEER_380804">>, <<V_380805, "VERMEER_380805">>,
                 <<V_380904, "VERMEER_380904">>, <<V_380905, "VERMEER_380905">>,
                 <<V_400005, "CEZANNE_400005">>, <<V_240903, "MATISSE_240903">>,
                 <<V_240803, "MATISSE_240803">>, <<V_370003, "RENOIR_370003">>,
                 <<V_370005, "RENOIR_370005">>, <<V_1E0004, "RAVEN_1E0004">> }
        res == get_family_map(pm_in.version)
    IN  /\ \A p \in own : pm_in.version = p[1] => res.name = p[2]
        /\ (\A p \in own : pm_in.version # p[1]) => res = GRANITE_RIDGE
        /\ res.named_count <= 12
        /\ (PmDecoded /\ pm_in.codename_index # 23
              /\ (\A p \in own : pm_in.version # p[1])) =>
                /\ pm_out.fclk_mhz = safe_get(pm_in.table, pm_in.count, 71).v
                /\ pm_out.vcore = safe_get(pm_in.table, pm_in.count, 271).v
                /\ pm_out.core_temps_count \in { 0, 8 }

\* C5 witness: a decode with the uncatalogued version 0x540004 has returned
\* with fclk taken from index 71 of GRANITE_RIDGE
C5_Witness ==
    /\ PmDecoded
    /\ pm_in.version = 5505028
    /\ pm_in.codename_index # 23
    /\ pm_in.count = MaxCount
    /\ pm_out.fclk_mhz = Fl(150, 1)
    /\ TableAt(pm_in.table, 71) = Fl(150, 1)

\* the index of the named IOD hotspot entry of the descriptor
HotspotIndex(map) ==
    (CHOOSE k \in 1 .. map.named_count : map.named[k].field = F_IOD_HOTSPOT)

\* C7: after pm_table_read, has_iod_hotspot is true exactly when a raw IOD
\* hotspot reading in [1, 150] was accepted (the descriptor's named entry on
\* the generic branch, index 11 on both branches), and iod_hotspot_c is then
\* the accepted value, index 11 taking precedence; otherwise the flag is
\* false and iod_hotspot_c is 0.  A reading of 0 or outside [1, 150] never
\* sets the flag.
C7_IodHotspotFlag ==
    pm_pc = "done" =>
        LET h      == pm_map.named[HotspotIndex(pm_map)].index
            named  == PmDecoded /\ pm_in.codename_index # 23 /\ h < pm_in.count
                        /\ Within(TableAt(pm_in.table, h), FX, 150 * FX)
            known  == PmDecoded /\ pm_in.count > 11
                        /\ Within(TableAt(pm_in.table, 11), FX, 150 * FX)
        IN  /\ pm_out.has_iod_hotspot = (named \/ known)
            /\ pm_out.iod_hotspot_c =
                  IF known THEN TableAt(pm_in.table, 11)
                  ELSE IF named THEN TableAt(pm_in.table, h)
                  ELSE 0
            /\ pm_out.has_iod_hotspot => Within(pm_out.iod_hotspot_c, FX, 150 * FX)

\* C7 witness: under the Cezanne map the named entry (index 29) holds 150
\* and is accepted while index 11 holds an implausible reading
C7_Witness ==
    /\ PmDecoded
    /\ pm_in.version = V_400005
    /\ pm_in.codename_index # 23
    /\ TableAt(pm_in.table, 29) = Fl(150, 1)
    /\ ~Within(TableAt(pm_in.table, 11), FX, 150 * FX)
    /\ pm_out.has_iod_hotspot
    /\ pm_out.iod_hotspot_c = Fl(150, 1)

\* C8: after pm_table_read on any table, every range-filtered field is
\* absent (0, or its flag unset) or inside its plausibility range:
\* package_power_w and ppt_w in [0.5, 400], package_current_a in [0.5, 200],
\* cpu_temp_c and (when has_tdie is set) tdie_c in [1, 150].
C8_PlausibleRanges ==
    pm_pc = "done" =>
        /\ pm_out.package_power_w = 0
             \/ Within(pm_out.package_power_w, FX \div 2, 400 * FX)
        /\ pm_out.ppt_w = 0 \/ Within(pm_out.ppt_w, FX \div 2, 400 * FX)
        /\ pm_out.package_current_a = 0
             \/ Within(pm_out.package_current_a, FX \div 2, 200 * FX)
        /\ pm_out.cpu_temp_c = 0 \/ Within(pm_out.cpu_temp_c, FX, 150 * FX)
        /\ pm_out.has_tdie => Within(pm_out.tdie_c, FX, 150 * FX)


\* elements 448 and 449 are both present, both positive and neither is a
\* plausible temperature: the Tdie scan falls through to their mean
TdieAveraged ==
    /\ PmDecoded
    /\ pm_in.count > 449
    /\ ~Within(TableAt(pm_in.table, 448), FX, 150 * FX)
    /\ ~Within(TableAt(pm_in.table, 449), FX, 150 * FX)
    /\ TableAt(pm_in.table, 448) # NaN /\ TableAt(pm_in.table, 448) > 0
    /\ TableAt(pm_in.table, 449) # NaN /\ TableAt(pm_in.table, 449) > 0

\* C8 (amended): after pm_table_read on any table, package_power_w and ppt_w
\* are 0 or in [0.5, 400] and package_current_a is 0 or in [0.5, 200];
\* cpu_temp_c is 0 or in [1, 150] and tdie_c (when has_tdie is set) is in
\* [1, 150], except when elements 448 and 449 are both positive and neither
\* is in [1, 150]: then has_tdie is set, tdie_c is their mean whatever its
\* value, and under codename_index 23 cpu_temp_c is that mean too.
C8_FilteredOrAveraged ==
    pm_pc = "done" =>
        /\ pm_out.package_power_w = 0
             \/ Within(pm_out.package_power_w, FX \div 2, 400 * FX)
        /\ pm_out.ppt_w = 0 \/ Within(pm_out.ppt_w, FX \div 2, 400 * FX)
        /\ pm_out.package_current_a = 0
             \/ Within(pm_out.package_current_a, FX \div 2, 200 * FX)
        /\ ~TdieAveraged =>
             /\ pm_out.cpu_temp_c = 0 \/ Within(pm_out.cpu_temp_c, FX, 150 * FX)
             /\ pm_out.has_tdie => Within(pm_out.tdie_c, FX, 150 * FX)
        /\ TdieAveraged =>
             /\ pm_out.has_tdie
             /\ 2 * pm_out.tdie_c
                  = TableAt(pm_in.table, 448) + TableAt(pm_in.table, 449)
             /\ pm_in.codename_index = 23 => pm_out.cpu_temp_c = pm_out.tdie_c
             /\ pm_in.codename_index # 23 =>
                  (pm_out.cpu_temp_c = 0
                     \/ Within(pm_out.cpu_temp_c, FX, 150 * FX))

\* C8 witness: a Granite Ridge table whose elements 448 and 449 hold 200 and
\* 400 has been decoded: Tdie and the CPU temperature are 300, while the
\* package current was filtered
C8_Witness ==
    /\ PmDecoded
    /\ pm_in.codename_index = 23
    /\ TableAt(pm_in.table, 448) = Fl(200, 1)
    /\ TableAt(pm_in.table, 449) = Fl(400, 1)
    /\ pm_out.has_tdie
    /\ pm_out.tdie_c = Fl(300, 1)
    /\ pm_out.cpu_temp_c = Fl(300, 1)
    /\ Within(pm_out.package_current_a, FX \div 2, 200 * FX)


---------------------------------------------------------------------------
(* Decoding under a descriptor outside the registry                        *)
(*                                                                         *)
(* The per-core copy of the generic branch takes its length from the       *)
(* descriptor's max_cores.  Every registry descriptor has max_cores 8, so  *)
(* the clamp to MAX_CORES is exercised here with the registry descriptors  *)
(* given every max_cores in 1 .. MaxCoresTried.                            *)

MaxCoresTried == 20

\* the descriptors tried: a registry descriptor with another max_cores
CoreMaps ==
    { [ get_family_map(ver) EXCEPT !.max_cores = n ] :
        ver \in { V_380804, V_1E0004, 0 }, n \in 1 .. MaxCoresTried }

\* table lengths around the end of the per-core ranges of the descriptor
CoreCounts(map) ==
    { map.core_temp_start + k : k \in { 1, MAX_CORES, MAX_CORES + 1, MaxCoresTried } }
      \cup { map.core_voltage_start + k : k \in { MAX_CORES, MaxCoresTried } }
      \cup { 3, MaxCount }

CoInit ==
    /\ pm_pc = "ready"
    /\ pm_map \in CoreMaps
    /\ pm_in \in { [ version |-> 0, table |-> t, count |-> c, codename_index |-> cn ] :
                     t \in { u \in PmTables : u.present /\ u.a = 1 /\ u.b <= 2 },
                     c \in UNION { CoreCounts(map) : map \in CoreMaps },
                     cn \in { -1, 23 } }
    /\ pm_out = StaleMetrics
    /\ pm_reads = {}
    /\ pm_oob = {}
    /\ pm_seen = {}
    /\ pm_calls = 0

\* the body of pm_table_read run with the descriptor pm_map
PmDecodeWith ==
    /\ pm_pc = "ready"
    /\ pm_calls < MaxCalls
    /\ LET r == pm_decode(pm_map, pm_in.table, pm_in.count,
                          pm_in.codename_index, pm_out)
       IN  /\ pm_out' = r.m
           /\ pm_reads' = r.reads
           /\ pm_oob' = r.oob
           /\ pm_seen' = pm_seen \cup { r.m }
           /\ pm_calls' = pm_calls + 1
    /\ pm_pc' = "done"
    /\ UNCHANGED <<pm_in, pm_map>>
    /\ UNCHANGED <<bsVars, drVars, aoVars, bkVars, shVars, cuVars, elVars>>

InitCores == CoInit /\ BsIdle /\ DrIdle /\ AoIdle /\ BkIdle /\ ShIdle /\ CuIdle /\ ElIdle

NextCores == PmDecodeWith \/ PmCallerWrites

SpecCores == InitCores /\ [][NextCores]_vars

\* C4: after a decode, core_temps_count, core_voltages_count and
\* core_clocks_count lie in 0 .. 16 and no per-core array is written at an
\* index above 15, for every table length and also under a descriptor whose
\* max_cores exceeds 16.
C4_CoreCountsClamped ==
    pm_pc = "done" =>
        /\ pm_out.core_temps_count \in 0 .. MAX_CORES
        /\ pm_out.core_voltages_count \in 0 .. MAX_CORES
        /\ pm_out.core_clocks_count \in 0 .. MAX_CORES
        /\ pm_oob = {}

\* C4 witness: a descriptor with max_cores 20 has been used on a table long
\* enough for 20 cores: both copies stopped at 16
C4_Witness ==
    /\ pm_pc = "done"
    /\ pm_map.max_cores = MaxCoresTried
    /\ pm_in.codename_index # 23
    /\ pm_in.count >= pm_map.core_temp_start + MaxCoresTried
    /\ pm_out.core_temps_count = MAX_CORES
    /\ pm_out.core_voltages_count = MAX_CORES
    /\ pm_out.core_temps_c[15] = TableAt(pm_in.table, pm_map.core_temp_start + 15)


---------------------------------------------------------------------------
(* Claims about the two decoders together, dram_read_timings and           *)
(* find_aod_phys                                                           *)

\* C6: each decoder's output record is a function of its inputs only: the
\* calls of pm_table_read with the same (version, table, count,
\* codename_index), and the calls of dram_read_timings with the same
\* codename_index and register contents, all return the same record,
\* whatever the record held before the call and whatever was decoded into
\* it in between.
C6_DecodersDeterministic ==
    /\ Cardinality(pm_seen) <= 1
    /\ Cardinality(dr_seen) <= 1
    /\ pm_pc = "done" =>
          /\ pm_seen = { pm_out }
          /\ pm_out = pm_table_read(pm_in.version, pm_in.table, pm_in.count,
                                    pm_in.codename_index, ZeroMetrics).m
    /\ dr_pc = "done" =>
          /\ dr_seen = { dr_out }
          /\ dr_out = dram_read_timings(dr_in.codename_index, dr_in.smn,
                                        ZeroTimings).m

\* C6 witness: the second call of a DDR4 decode with the same arguments has
\* returned the record of the first, with no frequency hint and no Cmd2T
\* string left from what the record held before
C6_Witness ==
    /\ dr_pc = "done"
    /\ dr_calls = 2
    /\ dr_in.codename_index = 12
    /\ dr_in.smn.avail /\ dr_in.smn.seed = 2
    /\ Cardinality(dr_seen) = 1
    /\ dr_out.frequency_hint_mhz = F32Zero
    /\ dr_out.cmd2t = ""
    /\ dr_out.tcl # 0

\* C9: dram_read_timings dispatches on codename_index: 23 runs the DDR5
\* decoding, each of 4, 9, 10, 12, 18, 19 runs the DDR4 decoding, and every
\* other value (-1 and values outside the codename table included) yields
\* an all-zero record without reading any register.
C9_DramDispatch ==
    dr_pc = "done" =>
        LET cn  == dr_in.codename_index
            smn == dr_in.smn
        IN  /\ cn = 23 =>
                /\ dr_reads = CommonRegs \cup { Umc(2, 0, 0), Umc(1, 2, 12) }
                       \cup { Umc(2, 6, 4 * k) : k \in 0 .. 3 }
                       \cup { Umc(2, 12, 4 * k) : k \in 0 .. 3 }
                /\ dr_out.cmd2t \in { "1T", "2T" }
                /\ dr_out.rfc \in { 0, SmnSlice(smn, Umc(2, 6, 0), 15, 0),
                                    SmnSlice(smn, Umc(2, 6, 4), 15, 0),
                                    SmnSlice(smn, Umc(2, 6, 8), 15, 0),
                                    SmnSlice(smn, Umc(2, 6, 12), 15, 0) }
                /\ dr_out.tcl = SmnSlice(smn, Umc(2, 0, 4), 5, 0)
            /\ cn \in { 4, 9, 10, 12, 18, 19 } =>
                /\ dr_reads = CommonRegs \cup { Umc(2, 6, 0), Umc(2, 6, 4) }
                /\ dr_out.cmd2t = ""
                /\ dr_out.frequency_hint_mhz = F32Zero
                /\ dr_out.rfc \in { 0, SmnSlice(smn, Umc(2, 6, 0), 10, 0),
                                    SmnSlice(smn, Umc(2, 6, 4), 10, 0) }
                /\ dr_out.tcl = SmnSlice(smn, Umc(2, 0, 4), 5, 0)
            /\ cn \notin { 23, 4, 9, 10, 12, 18, 19 } =>
                /\ dr_reads = {}
                /\ \A f \in TimingFields : dr_out[f] = 0
                /\ \A f \in NsFields : dr_out[f] = F32Zero
                /\ \A f \in TimingFlags : dr_out[f] = FALSE
                /\ dr_out.cmd2t = ""
                /\ \A i \in 0 .. (MAX_MODULES - 1) : dr_out.phy_rdl_per_channel[i] = 0

\* C9 witness: codename_index 24 on a device whose registers all hold
\* 0xFFFFFFFF has returned the zero record with no register read
C9_Witness ==
    /\ dr_pc = "done"
    /\ dr_in.codename_index = 24
    /\ dr_in.smn.avail /\ dr_in.smn.seed = 1 /\ dr_in.smn.set = << >>
    /\ dr_reads = {}
    /\ dr_out = ZeroTimings

\* the operand of a signature at some position of the AML of table idx
IsOperandOf(phys, hdr) ==
    \E i \in 0 .. (Len(hdr.aml) - Len(aode_pattern) - 9) :
        /\ memcmp_equal(hdr.aml, i, aode_pattern, Len(aode_pattern))
        /\ \/ hdr.aml[i + 8] = 12 /\ phys = dword_const(hdr.aml, i + 8)
           \/ hdr.aml[i + 8] = 14 /\ phys = qword_const(hdr.aml, i + 8)

\* C10: find_aod_phys scans only SSDT buffers whose 8-byte OEM table id is
\* "AOD     ": a buffer with another id is never read and never yields an
\* address, even when it holds the signature followed by a valid operand.
C10_OnlyAodTablesScanned ==
    ao_pc = "done" =>
        /\ \A idx \in ao_scanned :
              idx \in 1 .. Len(ao_tables) /\ ao_tables[idx].oem_table_id = AOD_OEM_ID
        /\ \A rd \in ao_reads : rd[1] \in ao_scanned
        /\ (\A idx \in 1 .. Len(ao_tables) : ao_tables[idx].oem_table_id # AOD_OEM_ID)
              => (ao_phys = NoPhys /\ ao_reads = {})
        /\ ao_phys # NoPhys =>
              \E idx \in 1 .. Len(ao_tables) :
                  /\ ao_tables[idx].oem_table_id = AOD_OEM_ID
                  /\ IsOperandOf(ao_phys, ao_tables[idx])

\* C10 witness: the first SSDT has the id "AOD    X" and holds the signature
\* with a DWord operand, the second is the AOD table with a QWord operand:
\* the call returned the second table's address and read only that table
C10_Witness ==
    /\ ao_pc = "done"
    /\ Len(ao_tables) = 2
    /\ ao_tables[1].oem_table_id = << 65, 79, 68, 32, 32, 32, 32, 88 >>
    /\ ao_tables[1].aml = aode_pattern \o << 12 >> \o PhysA \o Pad(6)
    /\ ao_tables[2].oem_table_id = AOD_OEM_ID
    /\ ao_phys = PhysB
    /\ ao_scanned = { 2 }


---------------------------------------------------------------------------
(* Claims about the AML locator and the module around it                   *)

\* find_aod_phys has run, alone or inside aod_voltages_init
AoLocated == ao_pc \in { "done", "loaded", "failed", "unloaded" }

\* position i of the AML of hdr lies in the scan window and holds the
\* signature followed by a DWordConst or QWordConst tag
ValidOccurrence(hdr, i) ==
    /\ 0 <= i
    /\ i + Len(aode_pattern) + 10 < Len(hdr.aml)
    /\ \A k \in 1 .. Len(aode_pattern) : hdr.aml[i + k] = aode_pattern[k]
    /\ hdr.aml[i + 8] \in { 12, 14 }

HasOccurrence(hdr) == \E i \in 0 .. Len(hdr.aml) : ValidOccurrence(hdr, i)

\* the first valid occurrence of a table that has one
FirstOccurrence(hdr) ==
    CHOOSE i \in 0 .. Len(hdr.aml) :
        ValidOccurrence(hdr, i) /\ \A j \in 0 .. (i - 1) : ~ValidOccurrence(hdr, j)

\* the value of an address whose upper five bytes leave it below 2^31
LeValue(phys) == phys[1] + 256 * phys[2] + 65536 * phys[3] + 16777216 * phys[4]

\* the tables of ao_tables that carry the AOD id and a valid occurrence
AodHits ==
    { idx \in 1 .. Len(ao_tables) :
        ao_tables[idx].oem_table_id = AOD_OEM_ID /\ HasOccurrence(ao_tables[idx]) }

\* the first of them
FirstHit == CHOOSE idx \in AodHits : \A j \in AodHits : idx <= j

\* C11: when the signature 5B 80 41 4F 44 45 00 is matched in an AOD
\* buffer, tag 0x0C makes the locator return the next 4 bytes as a
\* little-endian address (00 10 00 00 gives 0x1000) and tag 0x0E the next 8
\* bytes as a little-endian address; the region size paired with the
\* address is the constant 0x24BB, never a value from the byte stream.
C11_OperandDecoding ==
    (AoLocated /\ AodHits # {}) =>
        LET hdr == ao_tables[FirstHit]
            i   == FirstOccurrence(hdr)
        IN  /\ hdr.aml[i + 8] = 12 =>
                /\ \A k \in 1 .. 4 : ao_phys[k] = hdr.aml[i + 8 + k]
                /\ \A k \in 5 .. 8 : ao_phys[k] = 0
                /\ hdr.aml[i + 12] < 128 =>
                      LeValue(ao_phys) = hdr.aml[i + 9] + 256 * hdr.aml[i + 10]
                          + 65536 * hdr.aml[i + 11] + 16777216 * hdr.aml[i + 12]
                /\ (hdr.aml[i + 9] = 0 /\ hdr.aml[i + 10] = 16
                      /\ hdr.aml[i + 11] = 0 /\ hdr.aml[i + 12] = 0)
                   => LeValue(ao_phys) = 4096
            /\ hdr.aml[i + 8] = 14 =>
                \A k \in 1 .. 8 : ao_phys[k] = hdr.aml[i + 8 + k]
            /\ ~ao_base.null =>
                (ao_base.phys = ao_phys /\ ao_base.size = 9403)

\* C11 witness: the module has loaded on an AOD table whose signature is
\* followed by 0C 00 10 00 00: the region is mapped at 0x1000 with size
\* 0x24BB
C11_Witness ==
    /\ ao_pc = "loaded"
    /\ Len(ao_tables) = 1
    /\ ao_tables[1].oem_table_id = AOD_OEM_ID
    /\ ao_tables[1].aml = aode_pattern \o << 12, 0, 16, 0, 0 >> \o Pad(6)
    /\ ao_phys = << 0, 16, 0, 0, 0, 0, 0, 0 >>
    /\ ao_base = [ null |-> FALSE, phys |-> ao_phys, size |-> 9403 ]


\* the operand of the valid occurrence at position i, as an address
OperandAt(hdr, i) ==
    IF hdr.aml[i + 8] = 12
    THEN << hdr.aml[i + 9], hdr.aml[i + 10], hdr.aml[i + 11], hdr.aml[i + 12],
            0, 0, 0, 0 >>
    ELSE [ k \in 1 .. 8 |-> hdr.aml[i + 8 + k] ]

\* C12: the locator reports "not found" (returns 0) exactly when no
\* AOD-tagged SSDT buffer holds, inside its scan window, the signature
\* followed by a 0x0C or 0x0E tag; whenever such an occurrence exists it
\* reports found, with the operand of the first occurrence in the first
\* such buffer, and module init goes on to map the region.
C12_FoundIffOccurrence ==
    AoLocated =>
        /\ (ao_phys = NoPhys) = (AodHits = {})
        /\ AodHits # {} =>
              ao_phys = OperandAt(ao_tables[FirstHit],
                                  FirstOccurrence(ao_tables[FirstHit]))
        /\ (ao_pc \in { "loaded", "failed" } /\ AodHits # {}) => ao_ret # 0 - ENODEV

\* C12 (amended): the locator reports "not found" (returns 0) exactly when
\* no AOD-tagged SSDT buffer holds, inside its scan window, the signature
\* followed by a 0x0C or 0x0E tag, or when the operand of the first such
\* occurrence in the first such buffer is 0; otherwise it returns that
\* operand, and module init asks for the mapping of the region at that
\* address: it returns -ENODEV exactly when the locator returned 0, and
\* when it returns 0 the region is mapped there.
C12_FoundIffNonzeroOperand ==
    AoLocated =>
        /\ AodHits = {} => ao_phys = NoPhys
        /\ AodHits # {} =>
              ao_phys = OperandAt(ao_tables[FirstHit],
                                  FirstOccurrence(ao_tables[FirstHit]))
        /\ ao_pc \in { "loaded", "failed" } =>
              /\ (ao_ret = 0 - ENODEV) = (ao_phys = NoPhys)
              /\ ao_ret \in { 0, 0 - ENODEV, 0 - ENOMEM }
              /\ (ao_pc = "loaded") = (ao_ret = 0)
              /\ ao_ret = 0 =>
                    (~ao_base.null /\ ao_base.phys = ao_phys /\ ao_live.maps = 1)
              /\ ao_ret # 0 => ao_live.maps = 0

\* C12 witness: the first AOD table holds the signature with tag 0x0A and
\* then with tag 0x0C, the second one a QWord operand: the module loaded
\* with the region mapped at the first table's DWord operand
C12_Witness ==
    /\ ao_pc = "loaded"
    /\ Len(ao_tables) = 2
    /\ ao_tables[1].oem_table_id = AOD_OEM_ID
    /\ ao_tables[1].aml
          = aode_pattern \o << 10 >> \o aode_pattern \o << 12 >> \o PhysA \o Pad(6)
    /\ ao_tables[2].oem_table_id = AOD_OEM_ID
    /\ ao_tables[2].aml = Pad(2) \o aode_pattern \o << 14 >> \o PhysB \o Pad(2)
    /\ ao_phys = PhysA \o << 0, 0, 0, 0 >>
    /\ ao_base.phys = ao_phys


(***************************************************************************)
(* Claims about backend_read_summary                                       *)
(***************************************************************************)
\* the fields of a summary that come from the static data
StaticPart(out) ==
    [ processor_name |-> out.processor_name, motherboard |-> out.motherboard,
      bios_version |-> out.bios_version, bios_date |-> out.bios_date,
      agesa_version |-> out.agesa_version, modules |-> out.modules ]

\* the same fields, as the statics hold them
CachedPart(s) ==
    [ processor_name |-> s.processor_name, motherboard |-> s.board_product,
      bios_version |-> s.bios_version, bios_date |-> s.bios_date,
      agesa_version |-> s.agesa_version, modules |-> s.modules ]

\* C13: over any sequence of backend_read_summary calls each static data
\* source (the dmidecode processor, board and memory parsers, the AGESA
\* scan) is read exactly once, during the first call: once a call has
\* returned every parser has run once, and a later call runs none of them,
\* leaves the cached statics as they are and returns the board, processor
\* and module data of the cache.
C13_StaticReadOnce ==
    /\ [](bk_pc = "done" =>
            /\ \A k \in DOMAIN bk_runs : bk_runs[k] = 1
            /\ StaticPart(bk_out) = CachedPart(bk_static)
            /\ bk_out.module_count = Len(bk_static.modules))
    /\ [][bk_calls >= 1 =>
            /\ bk_runs' = bk_runs
            /\ bk_static' = bk_static
            /\ StaticPart(bk_out') = StaticPart(bk_out)]_vars

\* C13 witness: a second call has returned, with the live data of its own
\* reading and the processor name and the two modules parsed once
C13_Witness ==
    /\ bk_calls = 2
    /\ bk_pc = "done"
    /\ bk_out.live = "sample 2"
    /\ bk_out.processor_name = "Ryzen 9 7950X"
    /\ bk_out.module_count = 2
    /\ bk_runs.memory = 1


---------------------------------------------------------------------------
(* Further claims about pm_table_read                                      *)

\* the first n entries of the per-core array f are table[start .. start+n-1]
CoresFrom(f, n, start) ==
    \A i \in 0 .. (n - 1) : pm_out[f][i] = TableAt(pm_in.table, start + i)

\* C14: for codename_index # 23, after pm_table_read the per-core
\* temperature and voltage arrays hold min(max_cores, 16) entries from the
\* family descriptor's own base index (the count is that minimum, entry i
\* is table[core_temp_start + i], respectively table[core_voltage_start + i])
\* whenever the table covers that range, and are empty otherwise.
C14_FamilyCoreArrays ==
    (PmDecoded /\ pm_in.codename_index # 23) =>
        LET nc == IF pm_map.max_cores < MAX_CORES THEN pm_map.max_cores ELSE MAX_CORES
        IN  /\ IF pm_map.core_temp_start + nc <= pm_in.count
               THEN /\ pm_out.core_temps_count = nc
                    /\ CoresFrom("core_temps_c", nc, pm_map.core_temp_start)
               ELSE pm_out.core_temps_count = 0
            /\ IF pm_map.core_voltage_start + nc <= pm_in.count
               THEN /\ pm_out.core_voltages_count = nc
                    /\ CoresFrom("core_voltages", nc, pm_map.core_voltage_start)
               ELSE pm_out.core_voltages_count = 0


\* the core clock the per-core clock array of the record gives
ClockOfCores ==
    LET m == max_clock_from(0, pm_out.core_clocks_count, pm_out.core_clocks_ghz, 0)
    IN  IF pm_out.core_clocks_count > 0 /\ Within(m, FX \div 2, (13 * FX) \div 2)
        THEN FMul1000(m)
        ELSE 0

\* C15: for every family, after pm_table_read core_clock_mhz is the maximum
\* m of the per-core clock array times 1000 when the array is populated and
\* m lies in [0.5, 6.5] GHz, and 0 in every other case.
C15_CoreClockFromCores ==
    PmDecoded => pm_out.core_clock_mhz = ClockOfCores


\* the die temperature that the pair at 448 and 449 gives when "both
\* nonzero" decides the averaging
TdieOfPair ==
    LET a == TableAt(pm_in.table, 448)
        b == TableAt(pm_in.table, 449)
    IN  IF pm_in.count <= 449 THEN [ has |-> FALSE, v |-> 0 ]
        ELSE IF Within(a, FX, 150 * FX) THEN [ has |-> TRUE, v |-> a ]
        ELSE IF Within(b, FX, 150 * FX) THEN [ has |-> TRUE, v |-> b ]
        ELSE IF a # 0 /\ b # 0 THEN [ has |-> TRUE, v |-> FMean(a, b) ]
        ELSE [ has |-> FALSE, v |-> 0 ]

\* C16: for every family, pm_table_read takes the die temperature from the
\* pair at indices 448 and 449: the first of the two that lies in [1, 150];
\* if neither does but both are nonzero, their average; otherwise absent.
\* cpu_temp_c equals the die temperature whenever there is one, and otherwise
\* the result of the plausible-temperature search.
C16_DieTemperature ==
    PmDecoded =>
        /\ pm_out.has_tdie = TdieOfPair.has
        /\ pm_out.tdie_c = TdieOfPair.v
        /\ pm_out.cpu_temp_c =
              IF TdieOfPair.has THEN TdieOfPair.v
              ELSE try_plausible_temp(pm_in.table, pm_in.count).v


\* the positions of cands whose index lies in the table and whose value
\* lies in [lo, hi]
InRangeAt(cands, lo, hi) ==
    { k \in 1 .. Len(cands) :
        /\ cands[k] >= 0 /\ cands[k] < pm_in.count
        /\ Within(TableAt(pm_in.table, cands[k]), lo, hi) }

\* the value at the first such position, 0 when there is none
FirstInRange(cands, lo, hi) ==
    IF InRangeAt(cands, lo, hi) = {} THEN 0
    ELSE TableAt(pm_in.table,
                 cands[CHOOSE k \in InRangeAt(cands, lo, hi) :
                          \A j \in InRangeAt(cands, lo, hi) : k <= j])

\* C17: each plausibility search returns the value at the first candidate
\* index, in its priority order, whose value lies in the inclusive range,
\* and 0 when no candidate inside the table has one.  The searches are
\* seen where pm_table_read stores their results: package_current_a
\* always, package_power_w under codename_index 23 and otherwise when the
\* socket power index gives nothing plausible, cpu_temp_c under every other
\* codename and under 23 when no Tdie was found.  pm_table_read calls them
\* with count >= 4 only; applied to a table so short that every candidate
\* index lies beyond it, each search gives 0.
C17_FirstPlausibleCandidate ==
    PmDecoded =>
        /\ try_plausible_power(pm_in.table, 0).v = 0
        /\ try_plausible_current(pm_in.table, 3).v = 0
        /\ try_plausible_temp(pm_in.table, 1).v = 0
        /\ pm_out.package_current_a
              = FirstInRange(<< 41, 46, 3, 10, 11, 4 >>, FX \div 2, 200 * FX)
        /\ (pm_in.codename_index = 23
              \/ ~InPlausiblePower(safe_get(pm_in.table, pm_in.count,
                                            pm_map.socket_power_idx).v)) =>
              pm_out.package_power_w
                 = FirstInRange(<< 29, 1, 13, 38, 5, 220, 187, 42, 0 >>,
                                FX \div 2, 400 * FX)
        /\ (pm_in.codename_index # 23 \/ ~pm_out.has_tdie) =>
              pm_out.cpu_temp_c = FirstInRange(<< 1, 448, 449 >>, FX, 150 * FX)

\* C17 witness: under codename_index 23 the first power candidate, index
\* 29, is out of range and the next two, 1 and 13, are in range with the
\* larger value at index 13: the power is the value at index 1
C17_Witness ==
    /\ PmDecoded
    /\ pm_in.codename_index = 23
    /\ pm_in.count > 46
    /\ ~Within(TableAt(pm_in.table, 29), FX \div 2, 400 * FX)
    /\ Within(TableAt(pm_in.table, 1), FX \div 2, 400 * FX)
    /\ Within(TableAt(pm_in.table, 13), FX \div 2, 400 * FX)
    /\ TableAt(pm_in.table, 13) > TableAt(pm_in.table, 1)
    /\ pm_out.package_power_w = TableAt(pm_in.table, 1)


\* the fields read_granite_ridge_offsets writes
OffsetDecoded ==
    { "fclk_mhz", "uclk_mhz", "mclk_mhz", "vsoc", "vddp", "vddg_iod",
      "vddg_ccd", "vdd_misc", "vcore" }

\* the record pm_table_read gives for the table of pm_in under another
\* codename_index and version
DecodedAs(version, codename_index) ==
    pm_table_read(version, pm_in.table, pm_in.count, codename_index, StaleMetrics).m

\* <<version, codename_index>> pairs that decode with the default descriptor
OtherDecodes == { << 0, 0 - 1 >>, << 0, 12 >>, << 5505028, 12 >> }

\* C18: the byte-offset table of codename_index 23 and the GRANITE_RIDGE
\* descriptor address the same floats: each byte offset divided by 4 is the
\* descriptor's index of that field, and for every table the decode under
\* codename_index 23 gives the same fclk, uclk, mclk, vsoc, vddp, vddg_iod,
\* vddg_ccd, vdd_misc and vcore as the decode of the same table under
\* another codename with a version the registry does not list.
C18_OffsetsMatchDescriptor ==
    /\ \A k \in 1 .. Len(OffsetFields) :
          \E n \in 1 .. GRANITE_RIDGE.named_count :
              /\ GRANITE_RIDGE.named[n].field = OffsetFields[k][1]
              /\ GRANITE_RIDGE.named[n].index * 4 = OffsetFields[k][2]
    /\ (PmDecoded /\ pm_in.codename_index = 23) =>
          \A other \in OtherDecodes : \A f \in OffsetDecoded :
              pm_out[f] = DecodedAs(other[1], other[2])[f]
    /\ (PmDecoded /\ pm_in.codename_index # 23 /\ pm_in.version \in OtherVersions) =>
          \A f \in OffsetDecoded : pm_out[f] = DecodedAs(pm_in.version, 23)[f]

\* C18 witness: a table of 270 floats decoded under codename_index 23: vddp
\* is element 269, and vcore, whose element 271 lies beyond the table, is 0
C18_Witness ==
    /\ PmDecoded
    /\ pm_in.codename_index = 23
    /\ pm_in.count = 270
    /\ pm_in.table.a = 1
    /\ pm_out.vddp = TableAt(pm_in.table, 269)
    /\ pm_out.vddp # 0
    /\ pm_out.fclk_mhz = TableAt(pm_in.table, 71)
    /\ TableAt(pm_in.table, 271) # 0
    /\ pm_out.vcore = 0


---------------------------------------------------------------------------
(* Further claims about dram_read_timings                                  *)

\* a call that took the DDR5 decoding has returned
Ddr5Decoded == dr_pc = "done" /\ dr_in.codename_index = 23

\* the word the call read from the ratio register 0x50200
RatioWord == IF dr_in.smn.avail THEN SmnWord(dr_in.smn, Umc(2, 0, 0)) ELSE {}

\* bits [15:0] of that word, as a number
RatioField == ToNat(RatioWord \cap (0 .. 15))

\* the device of the call with w in the ratio register
WithRatioWord(w) ==
    [ dr_in.smn EXCEPT !.set = (Umc(2, 0, 0) :> w) @@ @ ]

\* the float h lies within one unit in the last place of the integer v,
\* 0 <= v < 2^24, the unit being that of the binade of v
WithinOneUlp(h, v) ==
    IF v = 0 THEN h = F32Zero
    ELSE LET k == BitLen(v) - 1
             exact == v * (2 ^ (MantBits - 1 - k))
         IN  \/ h.e = k - (MantBits - 1) /\ h.m - exact \in { 0 - 1, 0, 1 }
             \/ h.e = k - (MantBits - 1) + 1 /\ 2 * h.m - exact \in { 0, 1 }
             \/ h.e = k - (MantBits - 1) - 1 /\ 2 * exact - h.m \in { 0, 1, 2 }

\* C19: the DDR5 frequency hint is bits [15:0] of register 0x50200 divided
\* by 100 and multiplied by 200, that is twice the 16-bit field, for every
\* register value.
C19_HintTwiceField ==
    Ddr5Decoded => dr_out.frequency_hint_mhz = F32FromNat(2 * RatioField)

\* C19 (amended): the DDR5 frequency hint is the binary32 value of
\* (field / 100.0f) * 200.0f for the field in bits [15:0] of register
\* 0x50200: it lies within one unit in the last place of twice the field,
\* is exactly 6400 for the field 0x0C80, and is the same whatever the bits
\* above 15 are.
C19_HintNearTwiceField ==
    Ddr5Decoded =>
        /\ WithinOneUlp(dr_out.frequency_hint_mhz, 2 * RatioField)
        /\ RatioField = 3200 => dr_out.frequency_hint_mhz = F32FromNat(6400)
        /\ dr_out.frequency_hint_mhz
              = ddr5_mem_freq(WithRatioWord(RatioWord \cap (0 .. 15)))
        /\ dr_out.frequency_hint_mhz
              = ddr5_mem_freq(WithRatioWord(RatioWord \cup (16 .. 31)))

\* C19 witness: the ratio register holds 0x0C80 below bits 16 to 31 all
\* set, and the hint is 6400
C19_Witness ==
    /\ Ddr5Decoded
    /\ RatioWord = FromNat(3200) \cup (16 .. 31)
    /\ dr_out.frequency_hint_mhz = F32FromNat(6400)


\* the <<cycle field, nanosecond field>> pairs of read_ddr5_timings
NsOfCycles ==
    { << "refi", "trefi_ns" >>, << "rfc", "trfc_ns" >>,
      << "rfc2", "trfc2_ns" >>, << "rfcsb", "trfcsb_ns" >> }

\* cycles * 2000 / freq in single precision
ScaledCycles(cycles, freq) ==
    F32Div(F32FromNat(cycles * 2000), freq)

\* C20: to_nanoseconds(cycles, freq_mhz) returns 0 when freq_mhz <= 0;
\* otherwise cycles * 2000 / freq_mhz, halved exactly when that value
\* exceeds the cycle count, which for cycles > 0 is when freq_mhz is below
\* 2000; when freq_mhz is a whole number dividing cycles * 2000 the
\* quotient is their exact quotient, and 800 cycles at 3200 MHz are 500 ns,
\* not halved.  The function is seen in the four nanosecond fields of the
\* DDR5 decoding, converted at the frequency hint.
C20_NanosecondConversion ==
    Ddr5Decoded =>
        \A p \in NsOfCycles :
            LET cycles == dr_out[p[1]]
                freq   == dr_out.frequency_hint_mhz
                ns     == dr_out[p[2]]
            IN  /\ freq = F32Zero => ns = F32Zero
                /\ (freq # F32Zero /\ cycles > 0 /\ F32Gt(F32FromNat(2000), freq)) =>
                      /\ ns = F32Half(ScaledCycles(cycles, freq))
                      /\ F32Gt(ScaledCycles(cycles, freq), F32FromNat(cycles))
                /\ (freq # F32Zero /\ (cycles = 0 \/ ~F32Gt(F32FromNat(2000), freq))) =>
                      /\ ns = ScaledCycles(cycles, freq)
                      /\ ~F32Gt(ns, F32FromNat(cycles))
                /\ (freq = F32FromNat(2 * RatioField) /\ RatioField > 0
                      /\ (cycles * 2000) % (2 * RatioField) = 0) =>
                      ns = F32FromNat((cycles * 2000) \div (2 * RatioField))
                /\ (cycles = 800 /\ freq = F32FromNat(3200)) => ns = F32FromNat(500)

\* C20 witness: tRFC is 800 cycles at a frequency hint of 3200 MHz, and
\* trfc_ns is 500
C20_Witness ==
    /\ Ddr5Decoded
    /\ dr_out.rfc = 800
    /\ dr_out.frequency_hint_mhz = F32FromNat(3200)
    /\ dr_out.trfc_ns = F32FromNat(500)


\* the word the call read at an address
WordRead(address) == IF dr_in.smn.avail THEN SmnWord(dr_in.smn, address) ELSE {}

\* bits [hi:lo] of a word, as a number
Field(w, hi, lo) == ToNat({ b - lo : b \in w \cap (lo .. hi) })

\* the least element of a nonempty set of positions
First(S) == CHOOSE i \in S : \A j \in S : i <= j

\* the tRFC candidates of 0x50260 .. 0x5026C that differ from 0x00C00138
Ddr5Programmed ==
    { i \in 1 .. 4 : WordRead(Umc(2, 6, 4 * (i - 1))) # FromNat(12583224) }

\* the tRFCsb candidates of 0x502C0 .. 0x502CC with nonzero bits [10:0]
RfcsbProgrammed ==
    { i \in 1 .. 4 : Field(WordRead(Umc(2, 12, 4 * (i - 1))), 10, 0) # 0 }

\* C21: in the DDR5 decoding tRFC is bits [15:0] and tRFC2 bits [31:16] of
\* the first of 0x50260, 0x50264, 0x50268, 0x5026C whose value differs from
\* 0x00C00138, tRFCsb is bits [10:0] of the first of 0x502C0, 0x502C4,
\* 0x502C8, 0x502CC where they are nonzero, and a field with no qualifying
\* candidate is 0.
C21_Ddr5FirstProgrammed ==
    Ddr5Decoded =>
        /\ IF Ddr5Programmed = {}
           THEN dr_out.rfc = 0 /\ dr_out.rfc2 = 0
           ELSE /\ dr_out.rfc
                     = Field(WordRead(Umc(2, 6, 4 * (First(Ddr5Programmed) - 1))), 15, 0)
                /\ dr_out.rfc2
                     = Field(WordRead(Umc(2, 6, 4 * (First(Ddr5Programmed) - 1))), 31, 16)
        /\ IF RfcsbProgrammed = {}
           THEN dr_out.rfcsb = 0
           ELSE dr_out.rfcsb
                   = Field(WordRead(Umc(2, 12, 4 * (First(RfcsbProgrammed) - 1))), 10, 0)

\* C21 witness: 0x50260 holds the sentinel and 0x50264 another value, the
\* first two tRFCsb candidates have bits [10:0] clear and the third has not:
\* tRFC and tRFC2 come from 0x50264, tRFCsb from 0x502C8
C21_Witness ==
    /\ Ddr5Decoded
    /\ First(Ddr5Programmed \cup { 5 }) = 2
    /\ First(RfcsbProgrammed \cup { 5 }) = 3
    /\ dr_out.rfc = Field(WordRead(Umc(2, 6, 4)), 15, 0)
    /\ dr_out.rfc # 0 /\ dr_out.rfc2 # 0
    /\ dr_out.rfcsb = Field(WordRead(Umc(2, 12, 8)), 10, 0)


\* a call that took the DDR4 decoding has returned
Ddr4Decoded == dr_pc = "done" /\ dr_in.codename_index \in { 4, 9, 10, 12, 18, 19 }

\* the register the DDR4 refresh fields are to come from: 0x50260, or
\* 0x50264 when 0x50260 holds 0x21060138 and 0x50264 does not
Ddr4Chosen ==
    IF /\ WordRead(Umc(2, 6, 0)) = FromNat(554041656)
       /\ WordRead(Umc(2, 6, 4)) # FromNat(554041656)
    THEN WordRead(Umc(2, 6, 4))
    ELSE WordRead(Umc(2, 6, 0))

\* C22: in the DDR4 decoding the frequency hint is 0, and tRFC is bits
\* [10:0] and tRFC2 bits [21:11] of register 0x50260, or of register
\* 0x50264 when 0x50260 equals the default 0x21060138 and 0x50264 differs
\* from it.
C22_Ddr4RefreshChoice ==
    Ddr4Decoded =>
        /\ dr_out.frequency_hint_mhz = F32Zero
        /\ dr_out.rfc = Field(Ddr4Chosen, 10, 0)
        /\ dr_out.rfc2 = Field(Ddr4Chosen, 21, 11)

\* C22 witness: 0x50260 holds the default and 0x50264 another value with
\* other refresh fields: the record has those of 0x50264
C22_Witness ==
    /\ Ddr4Decoded
    /\ WordRead(Umc(2, 6, 0)) = FromNat(554041656)
    /\ WordRead(Umc(2, 6, 4)) # FromNat(554041656)
    /\ dr_out.rfc = Field(WordRead(Umc(2, 6, 4)), 10, 0)
    /\ dr_out.rfc # Field(WordRead(Umc(2, 6, 0)), 10, 0)
    /\ dr_out.rfc2 # Field(WordRead(Umc(2, 6, 0)), 21, 11)
    /\ dr_out.frequency_hint_mhz = F32Zero


\* a call that ran read_common_timings has returned
CommonDecoded == Ddr5Decoded \/ Ddr4Decoded

\* the fields of read_common_timings other than trcd_wr and twr, each with
\* the low digits of its register 0x502xy and its bit range
PlainSlices ==
    { << "tcl", 0, 4, 5, 0 >>, << "trcd_rd", 0, 4, 21, 16 >>,
      << "tras", 0, 4, 14, 8 >>, << "trp", 0, 8, 21, 16 >>, << "trc", 0, 8, 7, 0 >>,
      << "trrds", 0, 12, 4, 0 >>, << "trrdl", 0, 12, 12, 8 >>,
      << "tfaw", 1, 0, 7, 0 >>, << "rtp", 0, 12, 28, 24 >>,
      << "wtrs", 1, 4, 12, 8 >>, << "wtrl", 1, 4, 22, 16 >>, << "tcwl", 1, 4, 5, 0 >>,
      << "trc_page", 1, 12, 31, 20 >>,
      << "rdrd_scl", 2, 0, 29, 24 >>, << "rdrd_sc", 2, 0, 19, 16 >>,
      << "rdrd_sd", 2, 0, 11, 8 >>, << "rdrd_dd", 2, 0, 3, 0 >>,
      << "wrwr_scl", 2, 4, 29, 24 >>, << "wrwr_sc", 2, 4, 19, 16 >>,
      << "wrwr_sd", 2, 4, 11, 8 >>, << "wrwr_dd", 2, 4, 3, 0 >>,
      << "rdwr", 2, 8, 13, 8 >>, << "wrrd", 2, 8, 3, 0 >>, << "refi", 3, 0, 15, 0 >>,
      << "mod_pda", 3, 4, 29, 24 >>, << "mrd_pda", 3, 4, 21, 16 >>,
      << "mod", 3, 4, 13, 8 >>, << "mrd", 3, 4, 5, 0 >>,
      << "stag", 5, 0, 26, 16 >>, << "stag_sb", 5, 0, 8, 0 >>,
      << "cke", 5, 4, 28, 24 >>, << "xp", 5, 4, 5, 0 >>,
      << "phy_wrd", 5, 8, 26, 24 >>, << "phy_rdl", 5, 8, 23, 16 >>,
      << "phy_wrl", 5, 8, 15, 8 >>,
      << "wrpre", 10, 4, 10, 8 >>, << "rdpre", 10, 4, 2, 0 >> }

\* C23: in the shared timing extraction trcd_wr is its own bits [29:24] of
\* 0x50204 when they are nonzero and trcd_rd (bits [21:16]) when they are
\* 0; twr is its own bits [7:0] of 0x50218 when they are nonzero and wtrs
\* (bits [12:8] of 0x50214) when they are 0; every other field is the
\* slice of its register, backfilled from nothing.
C23_BackfillOnlyZero ==
    CommonDecoded =>
        /\ dr_out.trcd_wr =
              IF Field(WordRead(Umc(2, 0, 4)), 29, 24) # 0
              THEN Field(WordRead(Umc(2, 0, 4)), 29, 24)
              ELSE Field(WordRead(Umc(2, 0, 4)), 21, 16)
        /\ dr_out.twr =
              IF Field(WordRead(Umc(2, 1, 8)), 7, 0) # 0
              THEN Field(WordRead(Umc(2, 1, 8)), 7, 0)
              ELSE Field(WordRead(Umc(2, 1, 4)), 12, 8)
        /\ \A p \in PlainSlices :
              dr_out[p[1]] = Field(WordRead(Umc(2, p[2], p[3])), p[4], p[5])

\* C23 witness: the tRCDWR and tWR bits read 0 beside a tRCDRD of 18 and a
\* tWTRS of 31, which trcd_wr and twr take; tCL is its own 40
C23_Witness ==
    /\ CommonDecoded
    /\ Field(WordRead(Umc(2, 0, 4)), 29, 24) = 0
    /\ Field(WordRead(Umc(2, 1, 8)), 7, 0) = 0
    /\ dr_out.trcd_rd = 18 /\ dr_out.trcd_wr = 18
    /\ dr_out.wtrs = 31 /\ dr_out.twr = 31
    /\ dr_out.tcl = 40


\* every register the call read gave 0
NothingRead == \A a \in dr_reads : WordRead(a) = {}

\* C24: when no SMN register can be read, every read yielding 0,
\* dram_read_timings leaves every integer timing field of the record at 0,
\* in the DDR4 and in the DDR5 decoding, the backfilled trcd_wr and twr and
\* tRFC, tRFC2 and tRFCsb included.
C24_UnreadableGivesZeros ==
    (CommonDecoded /\ NothingRead) =>
        /\ \A f \in TimingFields : dr_out[f] = 0
        /\ dr_out.trcd_wr = 0 /\ dr_out.twr = 0
        /\ dr_out.rfc = 0 /\ dr_out.rfc2 = 0 /\ dr_out.rfcsb = 0

\* C24 witness: the DDR5 decoding has run on a device that cannot be
\* opened, whose registers hold all ones, over a record that held 1s
C24_Witness ==
    /\ Ddr5Decoded
    /\ ~dr_in.smn.avail
    /\ SmnWord(dr_in.smn, Umc(2, 0, 4)) = AllOnes
    /\ Cardinality(dr_reads) > 16
    /\ dr_out.tcl = 0 /\ dr_out.twr = 0 /\ dr_out.rfc = 0 /\ dr_out.rfcsb = 0


---------------------------------------------------------------------------
(* Further claims about the AML locator and the module                     *)

\* the signature stands at position i of the scan window, before a tag
\* byte that is neither 0x0C nor 0x0E
BadTagAt(hdr, i) ==
    /\ 0 <= i
    /\ i + Len(aode_pattern) + 10 < Len(hdr.aml)
    /\ \A k \in 1 .. Len(aode_pattern) : hdr.aml[i + k] = aode_pattern[k]
    /\ hdr.aml[i + 8] \notin { 12, 14 }

\* C25: a signature followed by a tag byte other than 0x0C and 0x0E is no
\* match and the scan goes on from the next byte: in every scanned buffer
\* such an occurrence that no valid one precedes had its tag byte read and,
\* if the window goes on, the next position examined; a later occurrence
\* with a valid tag in the same buffer is found and its operand returned.
C25_BadTagSkipped ==
    AoLocated =>
        \A idx \in ao_scanned :
            \A i \in 0 .. Len(ao_tables[idx].aml) :
                (/\ BadTagAt(ao_tables[idx], i)
                 /\ \A j \in 0 .. (i - 1) : ~ValidOccurrence(ao_tables[idx], j)) =>
                    /\ << idx, i + Len(aode_pattern) >> \in ao_reads
                    /\ i + 1 + Len(aode_pattern) + 10 < Len(ao_tables[idx].aml) =>
                          << idx, i + 1 >> \in ao_reads
                    /\ (\E j \in (i + 1) .. Len(ao_tables[idx].aml) :
                            ValidOccurrence(ao_tables[idx], j)) =>
                          ao_phys = OperandAt(ao_tables[idx],
                                              FirstOccurrence(ao_tables[idx]))

\* C25 witness: the first table is an AOD table whose buffer holds the
\* signature with tag 0x0A at position 0 and with tag 0x0C at position 8:
\* the operand after the second one was returned
C25_Witness ==
    /\ ao_pc = "done"
    /\ Len(ao_tables) >= 1
    /\ 1 \in ao_scanned
    /\ BadTagAt(ao_tables[1], 0)
    /\ ValidOccurrence(ao_tables[1], 8)
    /\ ao_phys = OperandAt(ao_tables[1], 8)
    /\ ao_phys # NoPhys


\* C26: find_aod_phys examines a start position i of an AML buffer only when
\* i + 7 + 10 is below the buffer's length: every byte the call read (the
\* signature bytes, the tag and the operand bytes of some examined position)
\* lies inside the buffer it was read from, and a buffer of at most 17 bytes
\* is not read at all.
C26_ReadsInsideBuffer ==
    AoLocated =>
        \A rd \in ao_reads :
            /\ rd[1] \in 1 .. Len(ao_tables)
            /\ 0 <= rd[2]
            /\ rd[2] < Len(ao_tables[rd[1]].aml)
            /\ Len(ao_tables[rd[1]].aml) > Len(aode_pattern) + 10
            /\ \E i \in 0 .. rd[2] :
                  /\ i + Len(aode_pattern) + 10 < Len(ao_tables[rd[1]].aml)
                  /\ rd[2] <= i + Len(aode_pattern) + 8

\* C26 witness: the AOD table's 18-byte buffer is the signature, the QWord
\* tag, eight operand bytes and two more bytes: the call read positions 0 to
\* 15 of it and returned the operand; the 16-byte buffer of the other AOD
\* table, signature with tag and operand and nothing else, was not read
C26_Witness ==
    /\ ao_pc = "done"
    /\ Len(ao_tables) = 2
    /\ ao_tables[1].oem_table_id = AOD_OEM_ID
    /\ ao_tables[1].aml = aode_pattern \o << 14 >> \o PhysB
    /\ ao_tables[2].oem_table_id = AOD_OEM_ID
    /\ ao_tables[2].aml = aode_pattern \o << 14 >> \o PhysB \o Pad(2)
    /\ ao_scanned = { 1, 2 }
    /\ { rd[2] : rd \in { r \in ao_reads : r[1] = 2 } } = 0 .. 15
    /\ { r \in ao_reads : r[1] = 1 } = {}
    /\ ao_phys = PhysB


\* the mappings, kobjects and groups live after a sequence of kernel calls
Counts(live) == << live.maps, live.kobjs, live.groups >>

\* C27: the sysfs attribute group exists only while the AOD region is
\* mapped.  After every kernel call the module made, a live group has a live
\* mapping and a live kobject under it and nothing is released twice:
\* sysfs_create_group comes after the memremap, sysfs_remove_group before
\* the memunmap.  A failed aod_voltages_init and aod_voltages_exit leave
\* nothing live.
C27_GroupOnlyWhileMapped ==
    /\ \A k \in 0 .. Len(ao_live.calls) :
          LET at == kernel_calls(NothingLive, SubSeq(ao_live.calls, 1, k))
          IN  /\ at.maps \in { 0, 1 } /\ at.kobjs \in { 0, 1 } /\ at.groups \in { 0, 1 }
              /\ at.groups = 1 => (at.maps = 1 /\ at.kobjs = 1)
    /\ Counts(ao_live) = Counts(kernel_calls(NothingLive, ao_live.calls))
    /\ ao_pc = "loaded" => Counts(ao_live) = << 1, 1, 1 >>
    /\ ao_pc \in { "failed", "unloaded" } => Counts(ao_live) = << 0, 0, 0 >>
    /\ ao_pc = "failed" => \A k \in 1 .. Len(ao_live.calls) : ao_live.calls[k] # "sysfs_create_group"

\* C27 witness: the module was loaded and unloaded: it mapped the region,
\* created the kobject and the group, and on exit removed the group, put
\* the kobject and unmapped the region, in that order
C27_Witness ==
    /\ ao_pc = "unloaded"
    /\ ao_live.calls = << "memremap", "kobject_create_and_add", "sysfs_create_group",
                          "sysfs_remove_group", "kobject_put", "memunmap" >>
    /\ Counts(ao_live) = << 0, 0, 0 >>


---------------------------------------------------------------------------
(* The sysfs show handlers                                                 *)

\* the 4 bytes at the offset lie inside the region
FitsRegion(offset) == 0 <= offset /\ offset <= AOD_REGION_SIZE - 4

\* C28: whatever the module parameters off_vddio, off_vddq and off_vpp are,
\* every read of the region by the scan, mem_vddio, mem_vddq, mem_vpp and
\* raw_wcns handlers covers only bytes inside [0, AOD_REGION_SIZE), and a
\* parameter whose 4 bytes do not fit in the region is rejected without a
\* read.
C28_ReadsInsideRegion ==
    sh_pc = "done" =>
        /\ \A offset \in sh_reads : FitsRegion(offset)
        /\ (/\ sh_out.attr = "mem_vddio"
            /\ ~FitsRegion(sh_off.off_vddio)) => (sh_reads = {} /\ sh_out.status = "unset")
        /\ (/\ sh_out.attr = "mem_vddq"
            /\ ~FitsRegion(sh_off.off_vddq)) => (sh_reads = {} /\ sh_out.status = "unset")
        /\ (/\ sh_out.attr = "mem_vpp"
            /\ ~FitsRegion(sh_off.off_vpp)) => (sh_reads = {} /\ sh_out.status = "unset")


---------------------------------------------------------------------------
(* read_core_usage                                                         *)

\* a float of the model that is 0 or normal, and at most 100
UsagePercent(v) ==
    /\ v.m = 0 \/ (2 ^ (MantBits - 1) <= v.m /\ v.m < 2 ^ MantBits)
    /\ ~F32Gt(v, F32Hundred)

\* the logical CPUs a call sampled for the first time
FirstSampled == { c \in LogicalCpus : ~cu_prev[c].valid /\ cu_prev'[c].valid }

\* C29: over every sequence of polls and every content of /proc/stat, with
\* counters that decrease between polls, every per-core usage is a number
\* from 0 to 100, core_usage_count is at most MAX_CORES, and a logical CPU
\* sampled for the first time has the usage 0, so that its core's value is
\* the average of 0 and of its sibling's usage.
C29_UsageInRange ==
    /\ [](/\ cu_out.core_usage_count \in 0 .. MAX_CORES
          /\ DOMAIN cu_out.core_usage_pct = 0 .. (MAX_CORES - 1)
          /\ \A c \in DOMAIN cu_out.core_usage_pct : UsagePercent(cu_out.core_usage_pct[c])
          /\ \A c \in LogicalCpus : UsagePercent(cu_logical[c]))
    /\ [][\A c \in FirstSampled :
             /\ cu_logical'[c] = F32Zero
             /\ (c \div 2 < MAX_CORES /\ c % 2 = 1) =>
                   cu_out'.core_usage_pct[c \div 2] = F32Half(cu_logical'[c - 1])
             /\ (c \div 2 < MAX_CORES /\ c % 2 = 0) =>
                   cu_out'.core_usage_pct[c \div 2] \in
                       { F32Zero, F32Half(cu_logical'[c + 1]) }]_vars

\* C29 witness: the third poll: CPU 0's idle counter grew while its total
\* went down, which gives it the usage 100; CPU 2 is sampled for the first
\* time and has the usage 0; core 0 is the average 50 of CPU 0 and of CPU 1,
\* which is absent from this poll, core 1 is CPU 2 alone
C29_Witness ==
    /\ cu_pc = "done"
    /\ cu_polls = 3
    /\ cu_prev[0] = [ idle |-> 12, total |-> 13, valid |-> TRUE ]
    /\ cu_prev[2] = [ idle |-> 3, total |-> 10, valid |-> TRUE ]
    /\ cu_logical[0] = F32Hundred
    /\ cu_logical[2] = F32Zero
    /\ cu_out.core_usage_count = 2
    /\ cu_out.core_usage_pct[0] = F32FromNat(50)
    /\ cu_out.core_usage_pct[1] = F32Zero


---------------------------------------------------------------------------
(* elevate_if_necessary                                                    *)

\* C30: elevate_if_necessary never stores past the end of the new_argv it
\* allocated: for every argc and every set of environment variables, the
\* entries it stores, the terminating NULL among them, have indices below
\* the allocated 2 + env_count + (argc - 1) + 1.
C30_ArgvWithinAllocation ==
    el_pc = "done" =>
        /\ \A i \in el_out.stores : 0 <= i /\ i < el_out.allocated
        /\ Cardinality(el_out.stores) <= el_out.allocated

===========================================================================
